---------------------------- MODULE Spec2Model ----------------------------
(***************************************************************************)
(* A model of the chapter-rewriting pipeline of AI_epub_edits:             *)
(*   - RateLimiter (ai_providers/base_provider.py): the token bucket and   *)
(*     the RPM gate, run by one task at a time under an asyncio lock;      *)
(*   - AIProvider.rewrite_chapter: token estimate, rate limiting, retries; *)
(*   - ContextManager: rolling context and chapter summaries;              *)
(*   - ProjectManager: the persisted per-chapter state and text files;     *)
(*   - Orchestrator.run_pipeline: backfill and the rewrite loop.           *)
(*                                                                         *)
(* Time is the monotonic clock in whole seconds.  Token amounts are whole  *)
(* numbers and the TPM limits are multiples of 60, so that the refill rate *)
(* tpm/60 is a whole number of tokens per second.  asyncio.sleep(d) wakes  *)
(* the task at the first whole second at or after d; time that passes     *)
(* meanwhile (Elapse) makes it wake later.                                 *)
(* Text is a sequence of pieces (strings); concatenation is \o.            *)
(***************************************************************************)
EXTENDS Integers, Sequences, FiniteSets, TLC

(* ------------------------------ bounds -------------------------------- *)

\* tasks that may call RateLimiter.wait concurrently (task 1 is the pipeline)
NumTasks == 2
\* wait calls issued in one behaviour of the limiter specification
MaxCalls == 3
\* the clock value up to which idle time is let pass between calls
MaxTime == 4

Tasks == 1..NumTasks

\* tpm and rpm settings the limiter is constructed with
TpmLimits == {60, 120}
RpmLimits == {0, 30}
\* tokens_to_consume values of wait calls
TokenRequests == {0, 40, 100}
\* values of time.monotonic() when the process starts
StartTimes == {0, 50}

Min(a, b) == IF a < b THEN a ELSE b
Max(a, b) == IF a > b THEN a ELSE b
\* the least whole number of seconds that is >= num/den (den > 0)
CeilDiv(num, den) == (num + den - 1) \div den

VARIABLES
    \* ---- RateLimiter ----
    tpm_limit,          \* constructor argument
    rpm_limit,          \* constructor argument
    tokens,             \* self.tokens
    last_refill_time,   \* self.last_refill_time
    last_call_time,     \* self._last_call_time
    lock,               \* self._lock: 0 when free, else the task holding it
    wait_pc,            \* per task: "idle", "lock", "rpm_sleep", "tpm_sleep",
                        \* or "raised" when its wait call ended in an exception
    tokens_to_consume,  \* per task: the argument of its wait call
    sleep_until,        \* per task: earliest wake-up time of its sleep
    now,                \* time.monotonic()
    \* ---- observation of the limiter ----
    calls,              \* wait calls issued so far
    grants,             \* wait calls granted so far (since construction)
    max_granted,        \* largest tokens_to_consume granted so far
    \* ---- persisted project (ProjectManager) ----
    chapters,           \* project_state.json: index -> chapter record
    rewritten_files,    \* 2_rewritten_txt: index -> file content, or None
    state_file,         \* project_state.json: "valid", or "truncated" when a
                        \* save was cut short (chapters is then unreadable)
    \* ---- one run of the pipeline (Orchestrator, AIProvider) ----
    pc,                 \* position of run_pipeline
    runs,               \* runs started so far
    provider_name,      \* the provider selected for the run
    retry_attempts,     \* AIProvider.retry_attempts
    retry_delay,        \* AIProvider.retry_delay
    start_chapter,      \* argument of run_pipeline
    pending_chapters,   \* indices selected by get_pending_chapters
    pos,                \* position of the rewrite loop in pending_chapters
    prompt,             \* the prompt handed to rewrite_chapter
    rewritten_text,     \* result of the rewrite, kept for the summary
    rc_pc,              \* position of rewrite_chapter
    attempt,            \* loop variable of rewrite_chapter
    backoff_until,      \* earliest wake-up time of the back-off sleep
    response,           \* value returned by _perform_rewrite
    exception,          \* message of the exception rewrite_chapter raised
    \* ---- observation of the run ----
    perform_calls,      \* _perform_rewrite calls of this rewrite_chapter call
    failed_calls,       \* those of them that raised
    grants_at_submit,   \* value of grants at the latest _perform_rewrite call
    run_start,          \* the persisted chapters when the run started
    rewrite_requested,  \* chapters whose rewrite was requested in this run
    exhausted,          \* chapters whose rewrite raised in this run
    summarize_calls,    \* index -> generate_chapter_summary calls in this run
    last_reply,         \* the service's answer to the latest request
    \* ---- operations examined on their own ----
    selection,          \* a get_pending_chapters call: arguments and result
    glossary,           \* context_glossary.json: its content, or absent
    glossary_text,      \* outcome of the latest get_glossary_as_text call
    io_failed,          \* an access to project_state.json raised in this run
    packaged,           \* the chapter items of the packaged EPUB, or none
    update_call,        \* arguments of the latest update_chapter_state call
                        \* examined on its own
    context_call,       \* the latest get_rolling_context call examined on
                        \* its own: its argument, its outcome, and how often
                        \* it loaded the state
    standalone          \* the run of the standalone rewriter_pipeline.py:
                        \* its position, its rewritten_chapters list and
                        \* the chapter files of OUTPUT_DIR

rlVars == <<tpm_limit, rpm_limit, tokens, last_refill_time, last_call_time,
            lock, wait_pc, tokens_to_consume, sleep_until, now,
            calls, grants, max_granted>>

storeVars == <<chapters, rewritten_files, state_file>>

runVars == <<pc, runs, provider_name, retry_attempts, retry_delay,
             start_chapter, pending_chapters, pos, prompt, rewritten_text,
             rc_pc, attempt, backoff_until, response, exception>>

obsVars == <<perform_calls, failed_calls, grants_at_submit, run_start,
             rewrite_requested, exhausted, summarize_calls, last_reply>>

auxVars == <<selection, glossary, glossary_text, io_failed, packaged,
            update_call, context_call, standalone>>

plVars == <<storeVars, runVars, obsVars, auxVars>>

vars == <<rlVars, plVars>>

(* ---------------------------- RateLimiter ------------------------------ *)

tpm_capacity == tpm_limit
refill_rate_per_second == tpm_limit \div 60
rpm_delay == IF rpm_limit > 0 THEN 60 \div rpm_limit ELSE 0

\* RateLimiter.__init__ at clock value t
RateLimiterInit(tpm, rpm, t) ==
    /\ tpm_limit' = tpm
    /\ rpm_limit' = rpm
    /\ tokens' = tpm
    /\ last_refill_time' = t
    /\ last_call_time' = 0
    /\ lock' = 0
    /\ wait_pc' = [c \in Tasks |-> "idle"]
    /\ tokens_to_consume' = [c \in Tasks |-> 0]
    /\ sleep_until' = [c \in Tasks |-> 0]
    /\ grants' = 0
    /\ max_granted' = 0

\* a refill that forgets the cap
RefillUncapped(level, elapsed) == level + elapsed * refill_rate_per_second

\* _refill: the bucket level after `elapsed` seconds
Refill(level, elapsed) ==
    Min(tpm_capacity, level + elapsed * refill_rate_per_second)

\* an RPM gate that never pauses
RpmWaitDurationNone(time_since_last_call) == 0

\* wait, lines 29-31: the pause the RPM gate asks for (0: none)
RpmWaitDuration(time_since_last_call) ==
    IF time_since_last_call < rpm_delay
    THEN rpm_delay - time_since_last_call
    ELSE 0

\* asyncio.sleep: the clock value at which a sleep that is due at `due`
\* returns: when it is due, or now when the clock has passed that already
WakeTime(due) == Max(now, due)

\* a grant that does not record the time of the call
GrantWithoutCallTime(c, level, t) ==
    /\ tokens' = level - tokens_to_consume[c]
    /\ lock' = 0
    /\ wait_pc' = [wait_pc EXCEPT ![c] = "idle"]
    /\ grants' = grants + 1
    /\ max_granted' = Max(max_granted, tokens_to_consume[c])
    /\ UNCHANGED <<sleep_until, last_call_time>>

\* a grant that does not give the lock back
GrantKeepingLock(c, level, t) ==
    /\ tokens' = level - tokens_to_consume[c]
    /\ last_call_time' = t
    /\ lock' = c
    /\ wait_pc' = [wait_pc EXCEPT ![c] = "idle"]
    /\ grants' = grants + 1
    /\ max_granted' = Max(max_granted, tokens_to_consume[c])
    /\ UNCHANGED sleep_until

\* wait, lines 50-51: deduct and record the call time at clock value t
Grant(c, level, t) ==
    /\ tokens' = level - tokens_to_consume[c]
    /\ last_call_time' = t
    /\ lock' = 0
    /\ wait_pc' = [wait_pc EXCEPT ![c] = "idle"]
    /\ grants' = grants + 1
    /\ max_granted' = Max(max_granted, tokens_to_consume[c])
    /\ UNCHANGED sleep_until

\* a pause that takes a level below zero for an empty bucket
TpmWaitTimeFromEmpty(n, level) ==
    CeilDiv(n - Max(level, 0), refill_rate_per_second)

\* wait, lines 41-43: the pause for the tokens that are missing
TpmWaitTime(n, level) == CeilDiv(n - level, refill_rate_per_second)

\* wait, lines 36-51 at clock value t: refill, pause for tokens or grant
EnforceTpm(c, t) ==
    LET level == Refill(tokens, t - last_refill_time)
        n == tokens_to_consume[c]
    IN  /\ last_refill_time' = t
        /\ IF n > level /\ refill_rate_per_second = 0
           THEN \* line 43: required_tokens / 0.0 raises ZeroDivisionError;
                \* the exception leaves the `async with` and frees the lock
                /\ tokens' = level
                /\ lock' = 0
                /\ wait_pc' = [wait_pc EXCEPT ![c] = "raised"]
                /\ UNCHANGED <<sleep_until, last_call_time, grants,
                               max_granted>>
           ELSE IF n > level
           THEN /\ tokens' = level
                /\ lock' = c
                /\ wait_pc' = [wait_pc EXCEPT ![c] = "tpm_sleep"]
                /\ sleep_until' = [sleep_until EXCEPT ![c] =
                        t + TpmWaitTime(n, level)]
                /\ UNCHANGED <<last_call_time, grants, max_granted>>
           ELSE Grant(c, level, t)

\* a lock that lets every task in
LockAvailableAlways(c) == TRUE

\* wait, line 26: `async with self._lock` lets task c in when no task holds
\* the lock
LockAvailable(c) == lock = 0

\* wait, lines 26-33: take the lock, run the RPM gate
WaitAcquire(c) ==
    /\ wait_pc[c] = "lock"
    /\ LockAvailable(c)
    /\ LET wait_duration == RpmWaitDuration(now - last_call_time)
       IN  IF wait_duration > 0
           THEN /\ lock' = c
                /\ wait_pc' = [wait_pc EXCEPT ![c] = "rpm_sleep"]
                /\ sleep_until' = [sleep_until EXCEPT ![c] = now + wait_duration]
                /\ UNCHANGED <<tokens, last_refill_time, last_call_time,
                               grants, max_granted>>
           ELSE EnforceTpm(c, now)
    /\ UNCHANGED <<tpm_limit, rpm_limit, tokens_to_consume, now, calls>>
    /\ UNCHANGED plVars

\* wait, line 33 returns: the RPM pause is over, go on to the TPM check
AfterRpmSleep(c) ==
    /\ wait_pc[c] = "rpm_sleep"
    /\ LET t == WakeTime(sleep_until[c])
       IN  /\ now' = t
           /\ EnforceTpm(c, t)
    /\ UNCHANGED <<tpm_limit, rpm_limit, tokens_to_consume, calls>>
    /\ UNCHANGED plVars

\* wait, lines 47-51: the TPM pause is over; refill again, deduct, record
AfterTpmSleep(c) ==
    /\ wait_pc[c] = "tpm_sleep"
    /\ LET t == WakeTime(sleep_until[c])
       IN  /\ now' = t
           /\ last_refill_time' = t
           /\ Grant(c, Refill(tokens, t - last_refill_time), t)
    /\ UNCHANGED <<tpm_limit, rpm_limit, tokens_to_consume, calls>>
    /\ UNCHANGED plVars

(* ------------------------------- text --------------------------------- *)

\* Python's None where a text is optional
None == <<"<None>">>
\* truthiness of an optional text: None and "" are false
Truthy(text) == text # None /\ text # <<>>

RECURSIVE LStrip(_)
LStrip(text) ==
    IF text # <<>> /\ Head(text) = " " THEN LStrip(Tail(text)) ELSE text

RECURSIVE RStrip(_)
RStrip(text) ==
    IF text # <<>> /\ text[Len(text)] = " "
    THEN RStrip(SubSeq(text, 1, Len(text) - 1))
    ELSE text

\* str.strip()
Strip(text) == RStrip(LStrip(text))

(* --------------------------- ProjectManager ---------------------------- *)

\* chapters of the book
NumChapters == 2
ChapterIndices == 1..NumChapters

\* the text the extraction collaborator supplied for chapter i
OriginalText(i) == <<"original", ToString(i)>>

\* _initialize_project_state
InitialChapters ==
    [i \in ChapterIndices |->
        [id |-> <<"item", ToString(i)>>, title |-> <<"title", ToString(i)>>,
         status |-> "pending", original_text |-> OriginalText(i),
         summary |-> <<>>, error |-> None]]

\* a selection that ignores the status of the chapters
GetPendingChaptersAnyStatus(state, max_chapters_to_run, start, end_chapter) ==
    LET RECURSIVE Scan(_, _)
        Scan(i, pending) ==
            IF i > NumChapters THEN pending
            ELSE IF i < start THEN Scan(i + 1, pending)
            ELSE IF end_chapter # 0 /\ i > end_chapter THEN Scan(i + 1, pending)
            ELSE IF max_chapters_to_run = 0 \/ Len(pending) < max_chapters_to_run
                 THEN Scan(i + 1, Append(pending, i))
            ELSE Scan(i + 1, pending)
    IN  Scan(1, <<>>)

\* a selection that takes the failed chapters again
GetPendingChaptersRetryFailed(state, max_chapters_to_run, start, end_chapter) ==
    LET RECURSIVE Scan(_, _)
        Scan(i, pending) ==
            IF i > NumChapters THEN pending
            ELSE IF i < start THEN Scan(i + 1, pending)
            ELSE IF end_chapter # 0 /\ i > end_chapter THEN Scan(i + 1, pending)
            ELSE IF state[i].status \in {"pending", "failed"}
                    /\ (max_chapters_to_run = 0
                        \/ Len(pending) < max_chapters_to_run)
                 THEN Scan(i + 1, Append(pending, i))
            ELSE Scan(i + 1, pending)
    IN  Scan(1, <<>>)

\* a cap that is never reached
WithinCapAlways(max_chapters_to_run, count) == TRUE

\* get_pending_chapters, line 302: may one more chapter be taken
WithinCap(max_chapters_to_run, count) ==
    max_chapters_to_run = 0 \/ count < max_chapters_to_run

\* get_pending_chapters: the indices selected, in the order of the scan
\* over the sorted chapter keys (count = length of the list built so far)
GetPendingChapters(state, max_chapters_to_run, start, end_chapter) ==
    LET RECURSIVE Scan(_, _)
        Scan(i, pending) ==
            IF i > NumChapters THEN pending
            ELSE IF i < start THEN Scan(i + 1, pending)
            ELSE IF end_chapter # 0 /\ i > end_chapter THEN Scan(i + 1, pending)
            ELSE IF state[i].status = "pending"
                    /\ WithinCap(max_chapters_to_run, Len(pending))
                 THEN Scan(i + 1, Append(pending, i))
            ELSE Scan(i + 1, pending)
    IN  Scan(1, <<>>)

\* an update that stores a record made of its arguments alone
ReplacedChapter(chapter, status, summary, error) ==
    [id |-> <<>>, title |-> <<>>, status |-> status, original_text |-> <<>>,
     summary |-> IF Truthy(summary) THEN summary ELSE <<>>,
     error |-> IF Truthy(error) THEN error ELSE None]

\* an update that stores an empty summary when none is passed
UpdatedChapterResetting(chapter, status, summary, error) ==
    [chapter EXCEPT
        !.status = status,
        !.summary = IF Truthy(summary) THEN summary ELSE <<>>,
        !.error = IF Truthy(error) THEN error ELSE @]

\* update_chapter_state: the chapter record after the update
UpdatedChapter(chapter, status, summary, error) ==
    [chapter EXCEPT
        !.status = status,
        !.summary = IF Truthy(summary) THEN summary ELSE @,
        !.error = IF Truthy(error) THEN error ELSE @]

\* a file that is not written
KeepRewrittenFiles(files, chapter_index, text) == files

\* update_chapter_state, lines 316-319: the rewritten text goes to the
\* chapter's file when there is a text
WriteRewrittenText(files, chapter_index, text) ==
    IF Truthy(text) THEN [files EXCEPT ![chapter_index] = text] ELSE files

\* update_chapter_state: load, change one chapter, write the text file when
\* a text is given, save
UpdateChapterState(chapter_index, status, text, summary, error) ==
    IF chapter_index \in DOMAIN chapters
    THEN /\ chapters' = [chapters EXCEPT ![chapter_index] =
                            UpdatedChapter(@, status, summary, error)]
         /\ rewritten_files' =
                WriteRewrittenText(rewritten_files, chapter_index, text)
         /\ UNCHANGED state_file
    ELSE UNCHANGED <<chapters, rewritten_files, state_file>>

(* ----------------------------- providers ------------------------------- *)

ProviderNames == {"gemini", "openai", "aistudio"}

\* texts the service may answer with
ReplyTexts == {<<" ">>, <<"T", " ">>}
\* str(e) of the exceptions the service call may raise
ErrorMessages == {<<>>, <<"E">>}

\* what the service does with one request: it answers with a text, answers
\* with nothing usable (no parts, a null or empty content), or raises
ServiceReplies ==
    {[kind |-> "text", text |-> t] : t \in ReplyTexts}
    \cup {[kind |-> "empty", text |-> <<>>]}
    \cup {[kind |-> "error", text |-> m] : m \in ErrorMessages}

\* no request has been answered
NoReply == [kind |-> "none", text |-> <<>>]

Returned(text) == [ok |-> TRUE, text |-> text]
Raised(message) == [ok |-> FALSE, text |-> message]

\* _perform_rewrite of the three providers
PerformRewrite(provider, reply) ==
    CASE reply.kind = "error" -> Raised(reply.text)
      [] reply.kind = "text" -> Returned(reply.text)
      [] reply.kind = "empty" ->
            IF provider = "openai"
            THEN Returned(<<>>)
            ELSE IF provider = "gemini"
            THEN Raised(<<"Gemini response was empty or blocked. Reason: ">>)
            ELSE Raised(<<"AI Studio response was empty or blocked. Reason: ">>)

\* token counts the service's token counting may return
TokenCounts == {20}
\* str(e) of the exceptions the token counting may raise
CountErrorMessages == {<<"E">>}

\* what the underlying token counting (count_tokens_async, tokenizer.encode)
\* does with one text: it returns a count or raises
CountReplies ==
    {[kind |-> "count", count |-> n, text |-> <<>>] : n \in TokenCounts}
    \cup {[kind |-> "error", count |-> 0, text |-> m] :
             m \in CountErrorMessages}

\* len(text) of the prompts whose tokens are counted (the pieces the model
\* keeps of a prompt stand for a text of this many characters)
PromptLengths == {80}

Counted(count) == [ok |-> TRUE, count |-> count, text |-> <<>>]
CountRaised(message) == [ok |-> FALSE, count |-> 0, text |-> message]

\* count_tokens of the three providers on a text of `length` characters
CountTokensOf(provider, length, reply) ==
    CASE reply.kind = "count" -> Counted(reply.count)
      [] reply.kind = "error" ->
            IF provider = "openai"
            THEN CountRaised(reply.text)
            ELSE Counted(length \div 4)

(* ------------------------ package_final_epub -------------------------- *)

\* The name of a chapter's XHTML item, relative to the OPF file: a folder
\* and the file name without its extension, as its pieces between dots.
\* A piece such as <<"chapter", 1>> stands for the string chapter1.
ItemName(folder, stem) == [folder |-> folder, stem |-> stem]

\* books whose chapter items are chapter1.xhtml, chapter2.xhtml, ... in
\* one folder
FlatBook == [i \in ChapterIndices |-> ItemName("text", << <<"chapter", i>> >>)]
\* books whose chapter items have the same file name in one folder per part
BookOfParts ==
    [i \in ChapterIndices |-> ItemName(<<"part", i>>, << <<"chapter", 1>> >>)]
\* books whose chapter items are chapter.1.xhtml, chapter.2.xhtml, ...
DottedBook == [i \in ChapterIndices |-> ItemName("text", << "chapter", i >>)]

Books == {FlatBook, BookOfParts, DottedBook}

\* no package has been made
NotPackaged == [names |-> <<>>, files |-> <<>>]

\* the item of chapter i as extracted from the source EPUB
SourceItem(i) == [from |-> 0, body |-> <<"source", i>>]

\* _text_to_xhtml_body: every non-blank line becomes a paragraph
TextToXhtmlBody(text) ==
    LET lines == SelectSeq(text, LAMBDA x : x # " ")
    IN  [k \in 1..Len(lines) |-> <<"<p>", lines[k], "</p>">>]

\* package_final_epub, lines 393-399: the first item of the manifest whose
\* file name without extension equals the id's file name up to its first
\* dot; 0 when there is none (the manifest lists the items in spine order)
MatchedHref(names, i) ==
    LET full_id == names[i].stem[1]
        matching == {j \in ChapterIndices : names[j].stem = <<full_id>>}
    IN  IF matching = {} THEN 0
        ELSE CHOOSE j \in matching : \A k \in matching : j <= k

\* package_final_epub, lines 388-432: the chapter items after the loop
\* over the chapters of the persisted state
InjectRewritten(state, files, names) ==
    LET RECURSIVE Inject(_, _)
        Inject(i, items) ==
            IF i > NumChapters THEN items
            ELSE IF state[i].status # "completed" THEN Inject(i + 1, items)
            ELSE IF MatchedHref(names, i) = 0 THEN Inject(i + 1, items)
            ELSE IF files[i] = None THEN Inject(i + 1, items)
            ELSE Inject(i + 1,
                        [items EXCEPT ![MatchedHref(names, i)] =
                            [from |-> i, body |-> TextToXhtmlBody(files[i])]])
    IN  Inject(1, [i \in ChapterIndices |-> SourceItem(i)])

(* --------------------------- ContextManager ---------------------------- *)

FirstChapterSentinel == <<"This is the first chapter.">>
NoSummarySentinel == <<"No summary available for the previous chapter.">>
ContextPrefix == <<"Context from Previous Chapter: ">>

\* a rolling context that reads the chapter itself, not its predecessor
GetRollingContextOfSelf(state, current_chapter_index) ==
    IF current_chapter_index <= 1 THEN FirstChapterSentinel
    ELSE IF Truthy(state[current_chapter_index].summary)
         THEN ContextPrefix \o state[current_chapter_index].summary
         ELSE NoSummarySentinel

\* a rolling context that labels whatever the predecessor's summary field
\* holds
GetRollingContextUnchecked(state, current_chapter_index) ==
    IF current_chapter_index <= 1 THEN FirstChapterSentinel
    ELSE IF (current_chapter_index - 1) \notin DOMAIN state
         THEN NoSummarySentinel
    ELSE ContextPrefix \o state[current_chapter_index - 1].summary

\* get_rolling_context
GetRollingContext(state, current_chapter_index) ==
    IF current_chapter_index <= 1 THEN FirstChapterSentinel
    ELSE IF (current_chapter_index - 1) \notin DOMAIN state
         THEN NoSummarySentinel
    ELSE LET prev_summary == state[current_chapter_index - 1].summary
         IN  IF Truthy(prev_summary)
             THEN ContextPrefix \o prev_summary
             ELSE NoSummarySentinel

\* a JSON document: an object with its members, or an array with its
\* elements
JsonObject(members) == [kind |-> "object", items |-> members]
JsonArray(elements) == [kind |-> "array", items |-> elements]

\* context_glossary.json does not exist
NoGlossary == [kind |-> "absent", items |-> <<>>]
\* json.dump({}, f)
EmptyMapping == JsonObject(<<>>)

\* pieces that are one member of a JSON object, one element of an array
\* (written without their quotation marks)
JsonMembers == {"characters: [Alex]"}
JsonElements == {"Alex"}

\* the Markdown code fence markers (three backquotes, with and without the
\* language name)
FenceJson == "<fence>json"
Fence == "<fence>"

\* str.replace(piece, empty string): the text without the pieces equal to `piece`
RemovePiece(text, piece) == SelectSeq(text, LAMBDA x : x # piece)

\* build_initial_glossary, line 47: strip, then drop the code fences
CleanJson(text) == RemovePiece(RemovePiece(Strip(text), FenceJson), Fence)

\* json.loads: the document a text parses to, or the JSONDecodeError
JsonLoads(text) ==
    LET doc == Strip(text)
        n == Len(doc)
        inner == SubSeq(doc, 2, n - 1)
        Within(allowed) == \A k \in 1..Len(inner) : inner[k] \in allowed
    IN  IF n >= 2 /\ doc[1] = "{" /\ doc[n] = "}" /\ Within(JsonMembers)
        THEN [ok |-> TRUE, value |-> JsonObject(inner)]
        ELSE IF n >= 2 /\ doc[1] = "[" /\ doc[n] = "]" /\ Within(JsonElements)
        THEN [ok |-> TRUE, value |-> JsonArray(inner)]
        ELSE [ok |-> FALSE, value |-> NoGlossary]

\* build_initial_glossary, lines 44-56: what is written to the glossary
\* file, from the outcome of rewrite_chapter
GlossaryWritten(position, text) ==
    IF position = "returned" /\ JsonLoads(CleanJson(text)).ok
    THEN JsonLoads(CleanJson(text)).value
    ELSE EmptyMapping

\* context_glossary.json holds the beginning of a document only
TruncatedGlossary == [kind |-> "truncated", items |-> <<>>]

GlossarySentinel == <<"No glossary available.">>
GlossaryHeader == <<"Key Terminology and Names (Must be Preserved):">>

\* get_glossary_as_text has not been called
NoGlossaryText == [kind |-> "none", text |-> <<>>]

\* get_glossary_as_text, line 73: the line of one member of the mapping
\* (category capitalized, terms joined with ", ")
GlossaryLine(member) ==
    CASE member = "characters: [Alex]" -> "- Characters: Alex"
      [] OTHER -> member

\* get_glossary_as_text, lines 70-75: the block built from a mapping
GlossaryBlock(members) ==
    GlossaryHeader \o [k \in 1..Len(members) |-> GlossaryLine(members[k])]

\* get_glossary_as_text: the text returned for the content of the glossary
\* file, or the exception raised
GetGlossaryAsText(file) ==
    LET \* lines 61-65: json.load, {} when the file is missing or no JSON
        cache == IF file.kind \in {"absent", "truncated"}
                 THEN EmptyMapping
                 ELSE file
    IN  IF cache.items = <<>>
        THEN \* line 67: {} and [] are falsy
             [kind |-> "returned", text |-> GlossarySentinel]
        ELSE IF cache.kind = "object"
        THEN [kind |-> "returned", text |-> GlossaryBlock(cache.items)]
        ELSE \* line 71: a list has no attribute items
             [kind |-> "raised", text |-> <<"AttributeError">>]

\* the prompt generate_chapter_summary builds
SummaryPrompt(text) ==
    [template |-> "summary", rolling_context |-> <<>>, chapter_text |-> text]

\* a summary that is an error text when the request failed
SummaryResultErrorText(position, text) ==
    IF position = "returned" THEN Strip(text) ELSE <<"error">>

\* generate_chapter_summary: its result from the outcome of rewrite_chapter
SummaryResult(position, text) ==
    IF position = "returned" THEN Strip(text) ELSE <<>>

(* ----------------------------- Orchestrator ---------------------------- *)

\* a prompt whose rolling context comes from the state as it was when the
\* run started
BuildMasterPromptAtRunStart(state, chapter_text, chapter_index) ==
    [template |-> "rewrite",
     rolling_context |-> GetRollingContext(run_start, chapter_index),
     chapter_text |-> chapter_text]

\* _build_master_prompt
BuildMasterPrompt(state, chapter_text, chapter_index) ==
    [template |-> "rewrite",
     rolling_context |-> GetRollingContext(state, chapter_index),
     chapter_text |-> chapter_text]

NoPrompt == [template |-> "none", rolling_context |-> <<>>, chapter_text |-> <<>>]

(* ---------------------- AIProvider.rewrite_chapter --------------------- *)

\* runs of the pipeline in one behaviour
MaxRuns == 2
\* largest retry_attempts setting
MaxRetryAttempts == 1

\* provider settings of config.ini: tpm, rpm, retry_attempts, retry_delay
\* (with retry_delay 0 the back-off is asyncio.sleep(0))
ProviderConfigs ==
    {[tpm |-> 60, rpm |-> 30, retry_attempts |-> r, retry_delay |-> 0] :
        r \in 0..MaxRetryAttempts}
\* value of time.monotonic() when a run's process starts
ProcessStartTimes == {50}

\* a caller enters rewrite_chapter(p)
RewriteChapterCall(p) ==
    /\ prompt' = p
    /\ rc_pc' = "count"
    /\ attempt' = 0
    /\ perform_calls' = 0
    /\ failed_calls' = 0
    /\ backoff_until' = 0
    /\ response' = <<>>
    /\ exception' = <<>>
    /\ last_reply' = NoReply
    /\ UNCHANGED grants_at_submit

\* an estimate that leaves out the output tokens
EstimatedTotalTokensPromptOnly(count) == count

\* rewrite_chapter, line 83: prompt tokens plus as many for the output
EstimatedTotalTokens(count) == count * 2

\* rewrite_chapter, lines 83-84: estimate the tokens, call rate_limiter.wait;
\* an exception of count_tokens leaves rewrite_chapter from line 83
CountTokens(reply, length) ==
    /\ rc_pc = "count"
    /\ LET counted == CountTokensOf(provider_name, length, reply)
       IN  IF counted.ok
           THEN /\ tokens_to_consume' =
                      [tokens_to_consume EXCEPT ![1] =
                          EstimatedTotalTokens(counted.count)]
                /\ wait_pc' = [wait_pc EXCEPT ![1] = "lock"]
                /\ rc_pc' = "wait"
                /\ UNCHANGED exception
           ELSE /\ exception' = counted.text
                /\ rc_pc' = "count_raised"
                /\ UNCHANGED <<tokens_to_consume, wait_pc>>
    /\ UNCHANGED <<tpm_limit, rpm_limit, tokens, last_refill_time,
                   last_call_time, lock, sleep_until, now, calls, grants,
                   max_granted>>
    /\ UNCHANGED <<storeVars, obsVars>>
    /\ UNCHANGED <<pc, runs, provider_name, retry_attempts, retry_delay,
                   start_chapter, pending_chapters, pos, prompt,
                   rewritten_text, attempt, backoff_until, response>>
    /\ UNCHANGED auxVars

\* a retry loop that makes one attempt fewer
MoreAttemptsOffByOne(k) == k + 1 < retry_attempts

\* rewrite_chapter, line 93: is there another attempt after attempt k fails
MoreAttempts(k) == k < retry_attempts

\* a back-off that does not grow
BackoffDelayConstant(k) == retry_delay

\* rewrite_chapter, line 94: the pause after the failure of attempt k
BackoffDelay(k) == retry_delay * (2 ^ k)

\* an exception of rewrite_chapter's own in place of the attempt's
FinalExceptionGeneric(outcome) ==
    <<"rewrite_chapter failed to return a response after all retries.">>

\* rewrite_chapter, line 99: the bare `raise` re-raises the exception that
\* the attempt just made ended in
FinalException(outcome) == outcome.text

\* rewrite_chapter, lines 86-99: one pass of the retry loop; the service
\* answers the request with `reply`
AttemptRewrite(reply) ==
    /\ \/ rc_pc = "attempt"
       \/ rc_pc = "wait" /\ wait_pc[1] = "idle"
    /\ perform_calls' = perform_calls + 1
    /\ grants_at_submit' = grants
    /\ last_reply' = reply
    /\ LET outcome == PerformRewrite(provider_name, reply)
       IN  IF outcome.ok
           THEN /\ response' = outcome.text
                /\ rc_pc' = "returned"
                /\ UNCHANGED <<backoff_until, exception, failed_calls>>
           ELSE /\ failed_calls' = failed_calls + 1
                /\ IF MoreAttempts(attempt)
                   THEN /\ backoff_until' = now + BackoffDelay(attempt)
                        /\ rc_pc' = "backoff"
                        /\ UNCHANGED <<response, exception>>
                   ELSE /\ exception' = FinalException(outcome)
                        /\ rc_pc' = "raised"
                        /\ UNCHANGED <<response, backoff_until>>
    /\ UNCHANGED <<rlVars, storeVars>>
    /\ UNCHANGED <<pc, runs, provider_name, retry_attempts, retry_delay,
                   start_chapter, pending_chapters, pos, prompt,
                   rewritten_text, attempt>>
    /\ UNCHANGED <<run_start, rewrite_requested, exhausted, summarize_calls>>
    /\ UNCHANGED auxVars

\* rewrite_chapter, line 96 returns: the back-off is over, next attempt
AfterBackoff ==
    /\ rc_pc = "backoff"
    /\ now' = WakeTime(backoff_until)
    /\ attempt' = attempt + 1
    /\ rc_pc' = "attempt"
    /\ UNCHANGED <<tpm_limit, rpm_limit, tokens, last_refill_time,
                   last_call_time, lock, wait_pc, tokens_to_consume,
                   sleep_until, calls, grants, max_granted>>
    /\ UNCHANGED <<storeVars, obsVars>>
    /\ UNCHANGED <<pc, runs, provider_name, retry_attempts, retry_delay,
                   start_chapter, pending_chapters, pos, prompt,
                   rewritten_text, backoff_until, response, exception>>
    /\ UNCHANGED auxVars

\* rewrite_chapter has raised: from its retry loop (line 99), or from the
\* token estimate (line 83)
RewriteChapterRaised == rc_pc \in {"raised", "count_raised"}

\* rewrite_chapter has returned or raised
RewriteChapterDone == rc_pc = "returned" \/ RewriteChapterRaised

\* the caller has taken the result: the frame of rewrite_chapter is gone
RewriteChapterExit ==
    /\ rc_pc' = "none"
    /\ prompt' = NoPrompt
    /\ attempt' = 0
    /\ backoff_until' = 0
    /\ response' = <<>>
    /\ exception' = <<>>
    /\ perform_calls' = 0
    /\ failed_calls' = 0
    /\ last_reply' = NoReply

(* ---------------------- Orchestrator.run_pipeline ---------------------- *)

\* the caller of generate_chapter_summary(text) for chapter i
GenerateChapterSummaryCall(i, text) ==
    /\ RewriteChapterCall(SummaryPrompt(text))
    /\ summarize_calls' = [summarize_calls EXCEPT ![i] = @ + 1]

\* a backfill that also runs when the previous summary is there
BackfillNeededAlways(state, prev_index) ==
    prev_index > 0 /\ prev_index \in DOMAIN state

\* run_pipeline, lines 115-120: must the previous summary be generated
BackfillNeeded(state, prev_index) ==
    /\ prev_index > 0
    /\ prev_index \in DOMAIN state
    /\ ~Truthy(state[prev_index].summary)

\* a sort that puts the highest index first
RECURSIVE SortByIndexDescending(_)
SortByIndexDescending(pending) ==
    IF pending = <<>> THEN <<>>
    ELSE LET first == CHOOSE p \in 1..Len(pending) :
                          \A q \in 1..Len(pending) : pending[p] >= pending[q]
         IN  <<pending[first]>> \o
             SortByIndexDescending(
                 SubSeq(pending, 1, first - 1)
                 \o SubSeq(pending, first + 1, Len(pending)))

\* run_pipeline, line 109: pending_chapters.sort(key = index)
RECURSIVE SortByIndex(_)
SortByIndex(pending) ==
    IF pending = <<>> THEN <<>>
    ELSE LET first == CHOOSE p \in 1..Len(pending) :
                          \A q \in 1..Len(pending) : pending[p] <= pending[q]
         IN  <<pending[first]>> \o
             SortByIndex(SubSeq(pending, 1, first - 1)
                         \o SubSeq(pending, first + 1, Len(pending)))

\* run_pipeline, lines 103-137 up to the summary request: a new process
\* builds the orchestrator (provider, rate limiter), selects the pending
\* chapters and starts the backfill when it is needed
RunPipeline(start, end_chapter, max_chapters) ==
    /\ pc \in {"idle", "done", "killed", "aborted"}
    /\ runs < MaxRuns
    /\ state_file = "valid"
    /\ io_failed' = FALSE
    /\ runs' = runs + 1
    /\ \E t \in ProcessStartTimes :
          /\ now' = t
          /\ RateLimiterInit(tpm_limit, rpm_limit, t)
    /\ UNCHANGED calls
    /\ start_chapter' = start
    /\ pending_chapters' =
          SortByIndex(
              GetPendingChapters(chapters, max_chapters, start, end_chapter))
    /\ pos' = 1
    /\ run_start' = chapters
    /\ rewrite_requested' = {}
    /\ exhausted' = {}
    /\ rewritten_text' = <<>>
    /\ LET prev_index == start - 1
       IN  IF BackfillNeeded(chapters, prev_index)
           THEN /\ pc' = "backfill"
                /\ summarize_calls' =
                      [[i \in ChapterIndices |-> 0] EXCEPT ![prev_index] = 1]
                /\ prompt' = SummaryPrompt(
                      IF rewritten_files[prev_index] # None
                      THEN rewritten_files[prev_index]
                      ELSE chapters[prev_index].original_text)
                /\ rc_pc' = "count"
           ELSE /\ pc' = "loop"
                /\ summarize_calls' = [i \in ChapterIndices |-> 0]
                /\ prompt' = NoPrompt
                /\ rc_pc' = "none"
    /\ attempt' = 0
    /\ perform_calls' = 0
    /\ failed_calls' = 0
    /\ grants_at_submit' = 0
    /\ last_reply' = NoReply
    /\ response' = <<>>
    /\ exception' = <<>>
    /\ backoff_until' = 0
    /\ UNCHANGED <<storeVars, provider_name, retry_attempts, retry_delay>>
    /\ UNCHANGED <<selection, glossary, glossary_text, packaged,
                   update_call, context_call,
                   standalone>>

\* a backfill that marks the chapter it summarized as completed
BackfillStatusCompleted(prev_chap) == "completed"

\* run_pipeline, line 133: the status the backfill passes to
\* update_chapter_state is the one it read at line 117
BackfillStatus(prev_chap) == prev_chap["status"]

\* run_pipeline, lines 130-137: the backfill summary is back; persist it
BackfillDone ==
    /\ pc = "backfill"
    /\ RewriteChapterDone
    /\ LET prev_index == start_chapter - 1
           prev_summary == SummaryResult(rc_pc, response)
       IN  UpdateChapterState(prev_index,
                              BackfillStatus(run_start[prev_index]),
                              None, prev_summary, None)
    /\ pc' = "loop"
    /\ RewriteChapterExit
    /\ UNCHANGED rlVars
    /\ UNCHANGED <<runs, provider_name, retry_attempts, retry_delay,
                   start_chapter, pending_chapters, pos, rewritten_text>>
    /\ UNCHANGED <<grants_at_submit, run_start, rewrite_requested, exhausted,
                   summarize_calls>>
    /\ UNCHANGED auxVars

\* run_pipeline, lines 140-148: the loop takes the next chapter, builds its
\* prompt from the persisted state and requests the rewrite
LoopNext ==
    /\ pc = "loop"
    /\ pos <= Len(pending_chapters)
    /\ LET index == pending_chapters[pos]
       IN  /\ RewriteChapterCall(
                  BuildMasterPrompt(chapters, run_start[index].original_text,
                                    index))
           /\ rewrite_requested' = rewrite_requested \cup {index}
    /\ pc' = "rewriting"
    /\ UNCHANGED <<rlVars, storeVars>>
    /\ UNCHANGED <<runs, provider_name, retry_attempts, retry_delay,
                   start_chapter, pending_chapters, pos, rewritten_text>>
    /\ UNCHANGED <<run_start, exhausted, summarize_calls>>
    /\ UNCHANGED auxVars

\* run_pipeline, line 140: the loop is over
LoopEnd ==
    /\ pc = "loop"
    /\ pos > Len(pending_chapters)
    /\ pc' = "done"
    /\ UNCHANGED <<rlVars, storeVars, obsVars>>
    /\ UNCHANGED <<runs, provider_name, retry_attempts, retry_delay,
                   start_chapter, pending_chapters, pos, prompt,
                   rewritten_text, rc_pc, attempt, backoff_until, response,
                   exception>>
    /\ UNCHANGED auxVars

\* run_pipeline, lines 148-149: the rewrite returned; request its summary
RewriteReturned ==
    /\ pc = "rewriting"
    /\ rc_pc = "returned"
    /\ rewritten_text' = response
    /\ GenerateChapterSummaryCall(pending_chapters[pos], response)
    /\ pc' = "summarizing"
    /\ UNCHANGED <<rlVars, storeVars>>
    /\ UNCHANGED <<runs, provider_name, retry_attempts, retry_delay,
                   start_chapter, pending_chapters, pos>>
    /\ UNCHANGED <<run_start, rewrite_requested, exhausted>>
    /\ UNCHANGED auxVars

\* the bookkeeping of a chapter that failed, with the run given up
AfterFailureAbort == pc' = "done" /\ pos' = pos

\* the bookkeeping of a chapter that failed, with the chapter taken again
AfterFailureSameChapter == pc' = "loop" /\ pos' = pos

\* run_pipeline, lines 160-166 and 140: after a failure the loop goes on
AfterFailure == pc' = "loop" /\ pos' = pos + 1

\* run_pipeline, lines 160-166: the rewrite raised; persist the failure
RewriteRaised ==
    /\ pc = "rewriting"
    /\ RewriteChapterRaised
    /\ UpdateChapterState(pending_chapters[pos], "failed", None, None,
                          exception)
    /\ exhausted' = exhausted \cup {pending_chapters[pos]}
    /\ AfterFailure
    /\ RewriteChapterExit
    /\ UNCHANGED rlVars
    /\ UNCHANGED <<runs, provider_name, retry_attempts, retry_delay,
                   start_chapter, pending_chapters, rewritten_text>>
    /\ UNCHANGED <<grants_at_submit, run_start, rewrite_requested,
                   summarize_calls>>
    /\ UNCHANGED auxVars

\* run_pipeline, lines 149-158: the summary is back (or failed); persist
\* the chapter as completed
SummaryDone ==
    /\ pc = "summarizing"
    /\ RewriteChapterDone
    /\ UpdateChapterState(pending_chapters[pos], "completed", rewritten_text,
                          SummaryResult(rc_pc, response), None)
    /\ pc' = "loop"
    /\ pos' = pos + 1
    /\ rewritten_text' = <<>>
    /\ RewriteChapterExit
    /\ UNCHANGED rlVars
    /\ UNCHANGED <<runs, provider_name, retry_attempts, retry_delay,
                   start_chapter, pending_chapters>>
    /\ UNCHANGED <<grants_at_submit, run_start, rewrite_requested, exhausted,
                   summarize_calls>>
    /\ UNCHANGED auxVars

\* the process is gone: its objects (orchestrator, provider, rate limiter,
\* the frames of run_pipeline and rewrite_chapter) are gone with it
ProcessGone(position) ==
    /\ pc' = position
    /\ now' = 0
    /\ RateLimiterInit(tpm_limit, rpm_limit, 0)
    /\ start_chapter' = 1
    /\ pending_chapters' = <<>>
    /\ pos' = 1
    /\ rewritten_text' = <<>>
    /\ RewriteChapterExit
    /\ grants_at_submit' = 0
    /\ run_start' = InitialChapters
    /\ rewrite_requested' = {}
    /\ exhausted' = {}
    /\ summarize_calls' = [i \in ChapterIndices |-> 0]
    /\ UNCHANGED <<calls, runs, provider_name, retry_attempts, retry_delay>>

ProcessKilled == ProcessGone("killed")

\* the process is killed between two steps of a run
Kill ==
    /\ pc \in {"backfill", "loop", "rewriting", "summarizing"}
    /\ ProcessKilled
    /\ UNCHANGED <<storeVars, auxVars>>

\* run_pipeline is about to persist a chapter with update_chapter_state
SavePending ==
    \/ pc = "backfill" /\ RewriteChapterDone
    \/ pc = "rewriting" /\ RewriteChapterRaised
    \/ pc = "summarizing" /\ RewriteChapterDone

\* the process is killed inside save_state, lines 88-89: open(path, 'w') has
\* truncated project_state.json and json.dump has not written all of it;
\* update_chapter_state has written the text file before (lines 316-319)
KillDuringSave ==
    /\ SavePending
    /\ state_file' = "truncated"
    /\ rewritten_files' =
          IF pc = "summarizing"
          THEN WriteRewrittenText(rewritten_files, pending_chapters[pos],
                                  rewritten_text)
          ELSE rewritten_files
    /\ UNCHANGED <<chapters, auxVars>>
    /\ ProcessKilled

\* the process is killed inside update_chapter_state between its two
\* writes: the text file is written (lines 316-319) and save_state, line
\* 324, has not opened project_state.json
KillBeforeSave ==
    /\ pc = "summarizing"
    /\ RewriteChapterDone
    /\ Truthy(rewritten_text)
    /\ rewritten_files' =
          WriteRewrittenText(rewritten_files, pending_chapters[pos],
                             rewritten_text)
    /\ UNCHANGED <<chapters, state_file, auxVars>>
    /\ ProcessKilled

\* run_pipeline, line 105 with a state file that does not parse: json.load
\* in load_state raises and the run ends there
RunPipelineLoadFails ==
    /\ pc \in {"killed", "crashed"}
    /\ runs < MaxRuns
    /\ state_file = "truncated"
    /\ runs' = runs + 1
    /\ pc' = "crashed"
    /\ UNCHANGED <<rlVars, storeVars, obsVars>>
    /\ UNCHANGED <<provider_name, retry_attempts, retry_delay, start_chapter,
                   pending_chapters, pos, prompt, rewritten_text, rc_pc,
                   attempt, backoff_until, response, exception>>
    /\ UNCHANGED auxVars

\* rewriter_pipeline.py has not been started and has left no output
NoStandaloneRun ==
    [pc |-> "idle", numbered |-> TRUE, done |-> {}, rewritten_chapters |-> <<>>,
     saved |-> 0, exists |-> FALSE, files |-> {}]

\* no get_rolling_context call is under examination
NoContextCall ==
    [chapter_index |-> 0, kind |-> "none", text |-> <<>>, state_loads |-> 0]

\* no update_chapter_state call is under examination
NoUpdateCall ==
    [chapter_index |-> 0, status |-> "none", rewritten_text |-> None,
     summary |-> None, error |-> None]

\* no get_pending_chapters call is under examination
NoSelection ==
    [max_chapters_to_run |-> 0, start_chapter |-> 0, end_chapter |-> 0,
     pending |-> <<>>]

\* the variables of the main program other than the persisted state when
\* it is not running
MainProgramIdle ==
    /\ pc = "idle"
    /\ runs = 0
    /\ start_chapter = 1
    /\ pending_chapters = <<>>
    /\ pos = 1
    /\ prompt = NoPrompt
    /\ rewritten_text = <<>>
    /\ rc_pc = "none"
    /\ attempt = 0
    /\ backoff_until = 0
    /\ response = <<>>
    /\ exception = <<>>
    /\ perform_calls = 0
    /\ failed_calls = 0
    /\ grants_at_submit = 0
    /\ run_start = InitialChapters
    /\ rewrite_requested = {}
    /\ exhausted = {}
    /\ summarize_calls = [i \in ChapterIndices |-> 0]
    /\ last_reply = NoReply
    /\ selection = NoSelection
    /\ glossary = NoGlossary
    /\ glossary_text = NoGlossaryText
    /\ io_failed = FALSE
    /\ packaged = NotPackaged
    /\ update_call = NoUpdateCall
    /\ context_call = NoContextCall

\* no process is running, neither of the main program nor of the
\* standalone script
NoProcessRunning ==
    /\ MainProgramIdle
    /\ standalone = NoStandaloneRun

\* no run is under way and the state file is intact
NoRunInProgress ==
    /\ state_file = "valid"
    /\ NoProcessRunning

\* the variables other than the chapter records when no run has started
NoRunStarted ==
    /\ rewritten_files = [i \in ChapterIndices |-> None]
    /\ NoRunInProgress

\* the pipeline variables when no run has started
PipelineIdle ==
    /\ chapters = InitialChapters
    /\ NoRunStarted

\* values of the chapter range and cap given on the command line
StartChapters == 1..(NumChapters + 1)
EndChapters == 0..NumChapters
MaxChaptersValues == 0..NumChapters

\* a project just created, and the settings of config.ini
Init ==
    /\ PipelineIdle
    /\ provider_name \in ProviderNames
    /\ \E cfg \in ProviderConfigs :
          /\ tpm_limit = cfg.tpm
          /\ rpm_limit = cfg.rpm
          /\ retry_attempts = cfg.retry_attempts
          /\ retry_delay = cfg.retry_delay
    /\ now = 0
    /\ tokens = tpm_limit
    /\ last_refill_time = 0
    /\ last_call_time = 0
    /\ lock = 0
    /\ wait_pc = [c \in Tasks |-> "idle"]
    /\ tokens_to_consume = [c \in Tasks |-> 0]
    /\ sleep_until = [c \in Tasks |-> 0]
    /\ calls = 0
    /\ grants = 0
    /\ max_granted = 0

Next ==
    \/ \E start \in StartChapters, end_chapter \in EndChapters,
          max_chapters \in MaxChaptersValues :
          RunPipeline(start, end_chapter, max_chapters)
    \/ \E reply \in CountReplies, length \in PromptLengths :
          CountTokens(reply, length)
    \/ WaitAcquire(1)
    \/ AfterRpmSleep(1)
    \/ AfterTpmSleep(1)
    \/ \E reply \in ServiceReplies : AttemptRewrite(reply)
    \/ AfterBackoff
    \/ BackfillDone
    \/ LoopNext
    \/ LoopEnd
    \/ RewriteReturned
    \/ RewriteRaised
    \/ SummaryDone
    \/ Kill
    \/ KillDuringSave
    \/ KillBeforeSave
    \/ RunPipelineLoadFails

Spec == Init /\ [][Next]_vars

(* ------------------- runs that are left to finish --------------------- *)

\* the process of a run takes its next step: a count, a step of wait, a
\* reply of the service, the end of a back-off, a step of run_pipeline
RunStep ==
    \/ \E reply \in CountReplies, length \in PromptLengths :
          CountTokens(reply, length)
    \/ WaitAcquire(1)
    \/ AfterRpmSleep(1)
    \/ AfterTpmSleep(1)
    \/ \E reply \in ServiceReplies : AttemptRewrite(reply)
    \/ AfterBackoff
    \/ BackfillDone
    \/ LoopNext
    \/ LoopEnd
    \/ RewriteReturned
    \/ RewriteRaised
    \/ SummaryDone

NextRun ==
    \/ \E start \in StartChapters, end_chapter \in EndChapters,
          max_chapters \in MaxChaptersValues :
          RunPipeline(start, end_chapter, max_chapters)
    \/ RunStep

\* asyncio.run drives the one coroutine of the run until it is over: a sleep
\* that is due returns, and every request to the service is answered or
\* fails
FairnessRun == WF_vars(RunStep)

SpecRun == Init /\ [][NextRun]_vars /\ FairnessRun

(* ------------------ the limiter under concurrent callers --------------- *)

\* a task calls wait(n)
CallWait(c, n) ==
    /\ wait_pc[c] \in {"idle", "raised"}
    /\ calls < MaxCalls
    /\ calls' = calls + 1
    /\ wait_pc' = [wait_pc EXCEPT ![c] = "lock"]
    /\ tokens_to_consume' = [tokens_to_consume EXCEPT ![c] = n]
    /\ UNCHANGED <<tpm_limit, rpm_limit, tokens, last_refill_time,
                   last_call_time, lock, sleep_until, now, grants, max_granted>>
    /\ UNCHANGED plVars

\* time passes
Elapse ==
    /\ now < MaxTime
    /\ now' = now + 1
    /\ UNCHANGED <<tpm_limit, rpm_limit, tokens, last_refill_time,
                   last_call_time, lock, wait_pc, tokens_to_consume,
                   sleep_until, calls, grants, max_granted>>
    /\ UNCHANGED plVars

InitRL ==
    /\ tpm_limit \in TpmLimits
    /\ rpm_limit \in RpmLimits
    /\ now \in StartTimes
    /\ tokens = tpm_limit
    /\ last_refill_time = now
    /\ last_call_time = 0
    /\ lock = 0
    /\ wait_pc = [c \in Tasks |-> "idle"]
    /\ tokens_to_consume = [c \in Tasks |-> 0]
    /\ sleep_until = [c \in Tasks |-> 0]
    /\ calls = 0
    /\ grants = 0
    /\ max_granted = 0
    /\ PipelineIdle
    /\ provider_name = "gemini"
    /\ retry_attempts = 0
    /\ retry_delay = 0

NextRL ==
    \/ \E c \in Tasks, n \in TokenRequests : CallWait(c, n)
    \/ \E c \in Tasks : WaitAcquire(c)
    \/ \E c \in Tasks : AfterRpmSleep(c)
    \/ \E c \in Tasks : AfterTpmSleep(c)
    \/ Elapse

SpecRL == InitRL /\ [][NextRL]_vars

\* a task inside wait takes its next step
WaitStep ==
    \E c \in Tasks : WaitAcquire(c) \/ AfterRpmSleep(c) \/ AfterTpmSleep(c)

\* the event loop does not stop while a task can run: a sleep that is over
\* returns, and a task waiting for a free lock gets it
FairnessRL == WF_vars(WaitStep)

SpecRLFair == InitRL /\ [][NextRL]_vars /\ FairnessRL

\* tpm settings the limiter can be constructed with, 0 included
AnyTpmLimits == {0, 60}

\* limiters of every configuration: the same start, with any tpm limit
InitRLAny ==
    /\ tpm_limit \in AnyTpmLimits
    /\ rpm_limit \in RpmLimits
    /\ now \in StartTimes
    /\ tokens = tpm_limit
    /\ last_refill_time = now
    /\ last_call_time = 0
    /\ lock = 0
    /\ wait_pc = [c \in Tasks |-> "idle"]
    /\ tokens_to_consume = [c \in Tasks |-> 0]
    /\ sleep_until = [c \in Tasks |-> 0]
    /\ calls = 0
    /\ grants = 0
    /\ max_granted = 0
    /\ PipelineIdle
    /\ provider_name = "gemini"
    /\ retry_attempts = 0
    /\ retry_delay = 0

SpecRLAny == InitRLAny /\ [][NextRL]_vars

(* --------------- runs in which the state file cannot be accessed ------- *)

\* str(e) of the OSError that open(state_path) raises
StateFileError == <<"[Errno 13] Permission denied: project_state.json">>

\* the exception of a state file access leaves run_pipeline: the run is over
RunAborted ==
    /\ ProcessGone("aborted")
    /\ UNCHANGED <<chapters, state_file>>

\* run_pipeline, lines 160-166 after an exception of a state file access
\* inside the try: the handler persists the chapter as failed with the
\* message of that exception, and the loop goes on
RecordedAsFailure ==
    /\ chapters' = [chapters EXCEPT ![pending_chapters[pos]] =
                       UpdatedChapter(@, "failed", None, StateFileError)]
    /\ UNCHANGED state_file
    /\ pc' = "loop"
    /\ pos' = pos + 1
    /\ RewriteChapterExit
    /\ rewritten_text' = <<>>
    /\ UNCHANGED rlVars
    /\ UNCHANGED <<runs, provider_name, retry_attempts, retry_delay,
                   start_chapter, pending_chapters>>
    /\ UNCHANGED <<grants_at_submit, run_start, rewrite_requested, exhausted,
                   summarize_calls>>

\* run_pipeline, lines 131-135: save_state raises in the backfill's
\* update_chapter_state, outside any try
BackfillUpdateFails ==
    /\ pc = "backfill"
    /\ RewriteChapterDone
    /\ io_failed' = TRUE
    /\ RunAborted
    /\ UNCHANGED rewritten_files
    /\ UNCHANGED <<selection, glossary, glossary_text, packaged,
                   update_call, context_call,
                   standalone>>

\* run_pipeline, lines 146 and 160-166: load_state raises in
\* get_rolling_context while the prompt of a chapter after the first is
\* built; the handler's update_chapter_state works, or raises as well
PromptLoadFails(again) ==
    /\ pc = "loop"
    /\ pos <= Len(pending_chapters)
    /\ pending_chapters[pos] > 1
    /\ io_failed' = TRUE
    /\ IF again THEN RunAborted ELSE RecordedAsFailure
    /\ UNCHANGED rewritten_files
    /\ UNCHANGED <<selection, glossary, glossary_text, packaged,
                   update_call, context_call,
                   standalone>>

\* run_pipeline, lines 151-166: save_state raises in the update_chapter_state
\* that persists the chapter as completed, after the text file was written
\* (lines 316-319); the handler's update_chapter_state works, or raises as
\* well
UpdateCompletedFails(again) ==
    /\ pc = "summarizing"
    /\ RewriteChapterDone
    /\ io_failed' = TRUE
    /\ rewritten_files' =
          IF Truthy(rewritten_text)
          THEN [rewritten_files EXCEPT ![pending_chapters[pos]] = rewritten_text]
          ELSE rewritten_files
    /\ IF again THEN RunAborted ELSE RecordedAsFailure
    /\ UNCHANGED <<selection, glossary, glossary_text, packaged,
                   update_call, context_call,
                   standalone>>

\* run_pipeline, lines 160-166: save_state raises in the update_chapter_state
\* that persists the chapter as failed, inside the except clause
UpdateFailedFails ==
    /\ pc = "rewriting"
    /\ RewriteChapterRaised
    /\ io_failed' = TRUE
    /\ RunAborted
    /\ UNCHANGED rewritten_files
    /\ UNCHANGED <<selection, glossary, glossary_text, packaged,
                   update_call, context_call,
                   standalone>>

NextIO ==
    \/ \E start \in StartChapters, end_chapter \in EndChapters,
          max_chapters \in MaxChaptersValues :
          RunPipeline(start, end_chapter, max_chapters)
    \/ \E reply \in CountReplies, length \in PromptLengths :
          CountTokens(reply, length)
    \/ WaitAcquire(1)
    \/ AfterRpmSleep(1)
    \/ AfterTpmSleep(1)
    \/ \E reply \in ServiceReplies : AttemptRewrite(reply)
    \/ AfterBackoff
    \/ BackfillDone
    \/ LoopNext
    \/ LoopEnd
    \/ RewriteReturned
    \/ RewriteRaised
    \/ SummaryDone
    \/ BackfillUpdateFails
    \/ \E again \in BOOLEAN : PromptLoadFails(again)
    \/ \E again \in BOOLEAN : UpdateCompletedFails(again)
    \/ UpdateFailedFails

SpecIO == Init /\ [][NextIO]_vars

(* -------------------- get_pending_chapters on its own ------------------ *)

Statuses == {"pending", "completed", "failed"}

\* the chapter records of a project that runs have worked on
AnyChapters ==
    {[i \in ChapterIndices |-> [InitialChapters[i] EXCEPT !.status = st[i]]] :
        st \in [ChapterIndices -> Statuses]}

\* a call of get_pending_chapters on the persisted state
GetPendingChaptersCall(max_chapters_to_run, start, end_chapter) ==
    /\ selection' =
          [max_chapters_to_run |-> max_chapters_to_run,
           start_chapter |-> start,
           end_chapter |-> end_chapter,
           pending |-> GetPendingChapters(chapters, max_chapters_to_run,
                                          start, end_chapter)]
    /\ UNCHANGED <<rlVars, storeVars, runVars, obsVars, glossary,
                   glossary_text, io_failed, packaged,
                   update_call, context_call,
                   standalone>>

InitGP ==
    /\ chapters \in AnyChapters
    /\ NoRunStarted
    /\ provider_name = "gemini"
    /\ retry_attempts = 0
    /\ retry_delay = 0
    /\ tpm_limit = 60
    /\ rpm_limit = 0
    /\ now = 0
    /\ tokens = tpm_limit
    /\ last_refill_time = 0
    /\ last_call_time = 0
    /\ lock = 0
    /\ wait_pc = [c \in Tasks |-> "idle"]
    /\ tokens_to_consume = [c \in Tasks |-> 0]
    /\ sleep_until = [c \in Tasks |-> 0]
    /\ calls = 0
    /\ grants = 0
    /\ max_granted = 0

NextGP ==
    \E max_chapters \in MaxChaptersValues, start \in StartChapters,
       end_chapter \in EndChapters :
       GetPendingChaptersCall(max_chapters, start, end_chapter)

SpecGP == InitGP /\ [][NextGP]_vars

(* ----------------------- rewrite_chapter on its own -------------------- *)

\* retry settings of config.ini with a back-off that takes time
BackoffRetryAttempts == 0..(MaxRetryAttempts + 1)
RetryDelays == {1, 2}
BackoffConfigs ==
    {[tpm |-> 60, rpm |-> 30, retry_attempts |-> r, retry_delay |-> d] :
        r \in BackoffRetryAttempts, d \in RetryDelays}

\* a caller awaits rewrite_chapter(prompt)
CallRewriteChapter ==
    /\ pc \in {"idle", "called"}
    /\ runs < MaxRuns
    /\ runs' = runs + 1
    /\ pc' = "calling"
    /\ RewriteChapterCall(BuildMasterPrompt(chapters, OriginalText(1), 1))
    /\ UNCHANGED <<rlVars, storeVars, auxVars>>
    /\ UNCHANGED <<provider_name, retry_attempts, retry_delay, start_chapter,
                   pending_chapters, pos, rewritten_text>>
    /\ UNCHANGED <<run_start, rewrite_requested, exhausted, summarize_calls>>

\* the caller has the result or the exception of rewrite_chapter
RewriteChapterOver ==
    /\ pc = "calling"
    /\ RewriteChapterDone
    /\ pc' = "called"
    /\ RewriteChapterExit
    /\ UNCHANGED <<rlVars, storeVars, auxVars>>
    /\ UNCHANGED <<runs, provider_name, retry_attempts, retry_delay,
                   start_chapter, pending_chapters, pos, rewritten_text>>
    /\ UNCHANGED <<grants_at_submit, run_start, rewrite_requested, exhausted,
                   summarize_calls>>

\* a provider built from config.ini when the process starts
InitBackoff ==
    /\ PipelineIdle
    /\ provider_name \in ProviderNames
    /\ \E cfg \in BackoffConfigs :
          /\ tpm_limit = cfg.tpm
          /\ rpm_limit = cfg.rpm
          /\ retry_attempts = cfg.retry_attempts
          /\ retry_delay = cfg.retry_delay
    /\ now \in ProcessStartTimes
    /\ tokens = tpm_limit
    /\ last_refill_time = now
    /\ last_call_time = 0
    /\ lock = 0
    /\ wait_pc = [c \in Tasks |-> "idle"]
    /\ tokens_to_consume = [c \in Tasks |-> 0]
    /\ sleep_until = [c \in Tasks |-> 0]
    /\ calls = 0
    /\ grants = 0
    /\ max_granted = 0

NextBackoff ==
    \/ CallRewriteChapter
    \/ \E reply \in CountReplies, length \in PromptLengths :
          CountTokens(reply, length)
    \/ WaitAcquire(1)
    \/ AfterRpmSleep(1)
    \/ AfterTpmSleep(1)
    \/ \E reply \in ServiceReplies : AttemptRewrite(reply)
    \/ AfterBackoff
    \/ RewriteChapterOver

SpecBackoff == InitBackoff /\ [][NextBackoff]_vars

(* -------------------- update_chapter_state on its own ------------------ *)

\* the chapter records of a project in which runs have failed chapters
FailedOrPendingChapters ==
    {[i \in ChapterIndices |->
         IF i \in failed
         THEN [InitialChapters[i] EXCEPT !.status = "failed",
                                         !.error = <<"E">>]
         ELSE InitialChapters[i]] : failed \in SUBSET ChapterIndices}

\* the optional arguments of update_chapter_state
RewrittenTexts == {None, <<"T">>}
Summaries == {None, <<>>, <<"S">>}
Errors == {None, <<>>, <<"E2">>}
\* chapter_index values: the chapters of the book and one that is not there
UpdateIndices == 1..(NumChapters + 1)

\* a call update_chapter_state(chapter_index, status, rewritten_text,
\* summary, error); the callers pass an error with the status failed only
UpdateChapterStateCall(chapter_index, status, text, summary, error) ==
    /\ status # "failed" => error = None
    /\ UpdateChapterState(chapter_index, status, text, summary, error)
    /\ update_call' =
          [chapter_index |-> chapter_index, status |-> status,
           rewritten_text |-> text, summary |-> summary, error |-> error]
    /\ UNCHANGED <<rlVars, runVars, obsVars>>
    /\ UNCHANGED <<selection, glossary, glossary_text, io_failed, packaged,
                   context_call,
                   standalone>>

InitUpdate ==
    /\ chapters \in FailedOrPendingChapters
    /\ NoRunStarted
    /\ provider_name = "gemini"
    /\ retry_attempts = 0
    /\ retry_delay = 0
    /\ tpm_limit = 60
    /\ rpm_limit = 0
    /\ now = 0
    /\ tokens = tpm_limit
    /\ last_refill_time = 0
    /\ last_call_time = 0
    /\ lock = 0
    /\ wait_pc = [c \in Tasks |-> "idle"]
    /\ tokens_to_consume = [c \in Tasks |-> 0]
    /\ sleep_until = [c \in Tasks |-> 0]
    /\ calls = 0
    /\ grants = 0
    /\ max_granted = 0

NextUpdate ==
    \E i \in UpdateIndices, status \in Statuses, text \in RewrittenTexts,
       summary \in Summaries, error \in Errors :
       UpdateChapterStateCall(i, status, text, summary, error)

SpecUpdate == InitUpdate /\ [][NextUpdate]_vars

(* --------------------- package_final_epub on its own ------------------- *)

\* the text files a project may hold for its chapters
StoredTexts == {None, <<"T", " ">>}

\* persisted projects that runs have worked on: a completed chapter has its
\* text file unless the text was empty; a pending or failed chapter has one
\* when a run ended between the write of the file and the save of the state
StoredChapters == AnyChapters
StoredFiles == [ChapterIndices -> StoredTexts]

\* the command `package` on a project whose EPUB has the item names `names`
PackageFinalEpub(names) ==
    /\ pc = "idle"
    /\ state_file = "valid"
    /\ packaged' = [names |-> names,
                    files |-> InjectRewritten(chapters, rewritten_files, names)]
    /\ UNCHANGED <<rlVars, storeVars, runVars, obsVars>>
    /\ UNCHANGED <<selection, glossary, glossary_text, io_failed, update_call, context_call,
                   standalone>>

InitPackage ==
    /\ chapters \in StoredChapters
    /\ rewritten_files \in StoredFiles
    /\ NoRunInProgress
    /\ provider_name = "gemini"
    /\ retry_attempts = 0
    /\ retry_delay = 0
    /\ tpm_limit = 60
    /\ rpm_limit = 0
    /\ now = 0
    /\ tokens = tpm_limit
    /\ last_refill_time = 0
    /\ last_call_time = 0
    /\ lock = 0
    /\ wait_pc = [c \in Tasks |-> "idle"]
    /\ tokens_to_consume = [c \in Tasks |-> 0]
    /\ sleep_until = [c \in Tasks |-> 0]
    /\ calls = 0
    /\ grants = 0
    /\ max_granted = 0

NextPackage == \E names \in Books : PackageFinalEpub(names)

SpecPackage == InitPackage /\ [][NextPackage]_vars

(* -------------------- build_initial_glossary on its own ---------------- *)

\* texts the service may answer the glossary request with
GlossaryReplyTexts ==
    {<<"{", "characters: [Alex]", "}">>,
     <<FenceJson, "{", "}", Fence>>,
     <<"[", "Alex", "]">>,
     <<"Here are the terms.">>,
     <<" ">>}

GlossaryReplies ==
    {[kind |-> "text", text |-> t] : t \in GlossaryReplyTexts}
    \cup {[kind |-> "empty", text |-> <<>>]}
    \cup {[kind |-> "error", text |-> m] : m \in ErrorMessages}

\* build_initial_glossary, lines 15-42: the prompt over the original texts
GlossaryPrompt(state) ==
    LET RECURSIVE AllText(_)
        AllText(i) ==
            IF i = NumChapters THEN state[i].original_text
            ELSE state[i].original_text \o <<"<newline><newline>">>
                 \o AllText(i + 1)
    IN  [template |-> "glossary", rolling_context |-> <<>>,
         chapter_text |-> AllText(1)]

\* build_initial_glossary, lines 13-45: build the prompt, request the answer
BuildInitialGlossaryCall ==
    /\ pc = "idle"
    /\ pc' = "glossary"
    /\ RewriteChapterCall(GlossaryPrompt(chapters))
    /\ \E t \in ProcessStartTimes :
          /\ now' = t
          /\ RateLimiterInit(tpm_limit, rpm_limit, t)
    /\ UNCHANGED calls
    /\ UNCHANGED <<storeVars, auxVars>>
    /\ UNCHANGED <<runs, provider_name, retry_attempts, retry_delay,
                   start_chapter, pending_chapters, pos, rewritten_text>>
    /\ UNCHANGED <<run_start, rewrite_requested, exhausted, summarize_calls>>

\* build_initial_glossary, lines 46-56: parse the answer and write the
\* glossary file, or write {} when anything raised
BuildInitialGlossaryDone ==
    /\ pc = "glossary"
    /\ RewriteChapterDone
    /\ glossary' = GlossaryWritten(rc_pc, response)
    /\ pc' = "glossary_done"
    /\ UNCHANGED <<rlVars, storeVars, obsVars, selection, glossary_text,
                   io_failed, packaged,
                   update_call, context_call,
                   standalone>>
    /\ UNCHANGED <<runs, provider_name, retry_attempts, retry_delay,
                   start_chapter, pending_chapters, pos, prompt,
                   rewritten_text, rc_pc, attempt, backoff_until, response,
                   exception>>

\* the process is killed inside build_initial_glossary's write, lines 49-50
\* or 55-56: open(path, 'w') has truncated context_glossary.json and
\* json.dump has not written all of it
KillDuringGlossaryWrite ==
    /\ pc = "glossary"
    /\ RewriteChapterDone
    /\ glossary' = TruncatedGlossary
    /\ ProcessKilled
    /\ UNCHANGED <<storeVars, selection, glossary_text, io_failed, packaged,
                   update_call, context_call,
                   standalone>>

\* a later process (a new ContextManager, without _glossary_cache) calls
\* get_glossary_as_text
GetGlossaryAsTextCall ==
    /\ pc \in {"idle", "glossary_done", "killed"}
    /\ glossary_text' = GetGlossaryAsText(glossary)
    /\ UNCHANGED <<rlVars, storeVars, runVars, obsVars, selection, glossary,
                   io_failed, packaged,
                   update_call, context_call,
                   standalone>>

NextGlossary ==
    \/ BuildInitialGlossaryCall
    \/ \E reply \in CountReplies, length \in PromptLengths :
          CountTokens(reply, length)
    \/ WaitAcquire(1)
    \/ \E reply \in GlossaryReplies : AttemptRewrite(reply)
    \/ AfterBackoff
    \/ BuildInitialGlossaryDone
    \/ KillDuringGlossaryWrite
    \/ GetGlossaryAsTextCall

SpecGlossary == Init /\ [][NextGlossary]_vars

(* ------------------------------- claims -------------------------------- *)

\* C1 (as stated): after any sequence of wait(n) calls, with any n >= 0,
\* the bucket level satisfies 0 <= tokens <= capacity wherever it can be
\* observed.
C1_TokensInBounds == 0 <= tokens /\ tokens <= tpm_capacity

\* C1 (amended): the bucket level never exceeds the capacity, and it is
\* never negative as long as no granted request asked for more than the
\* capacity.
C1_TokensInBoundsUpToCapacity ==
    /\ tokens <= tpm_capacity
    /\ max_granted <= tpm_capacity => tokens >= 0

\* C1 witness: a request within the capacity had to pause for tokens and
\* was granted, leaving the bucket short of full.
C1_Witness ==
    /\ grants >= 2
    /\ 0 < max_granted /\ max_granted <= tpm_capacity
    /\ tokens = 0
    /\ \A c \in Tasks : wait_pc[c] = "idle"

\* C2: when the limiter has an rpm limit > 0, each grant after the first
\* happens at least 60/rpm_limit seconds after the grant before it.
C2_MinIntervalBetweenGrants ==
    [][(grants' = grants + 1 /\ grants >= 1 /\ rpm_limit > 0)
        => (last_call_time' - last_call_time) * rpm_limit >= 60]_vars

\* C2 witness: two tasks were in wait at the same time and both were
\* granted, under an rpm limit.
C2_Witness ==
    /\ rpm_limit > 0
    /\ grants >= 2
    /\ calls >= 2
    /\ \E c \in Tasks : c # 1 /\ tokens_to_consume[c] > 0 /\ wait_pc[c] = "idle"
    /\ tokens_to_consume[1] > 0 /\ wait_pc[1] = "idle"

\* the chapter whose rewrite the loop is working on
CurrentIndex == pending_chapters[pos]

\* the chapters selected for the run
Selected == {pending_chapters[p] : p \in 1..Len(pending_chapters)}

\* C3 (as stated): every _perform_rewrite call made by rewrite_chapter,
\* retries included, comes after a grant of RateLimiter.wait that is later
\* than the _perform_rewrite call before it.
C3_GrantBeforeEverySubmission ==
    [][perform_calls' = perform_calls + 1 => grants > grants_at_submit]_vars

\* C4: rewrite_chapter never makes more than retry_attempts + 1 calls of
\* _perform_rewrite; when its retry loop raises, it has made exactly
\* retry_attempts + 1 calls, all of which failed, and raises the last
\* failure; when it returns,
\* the k-th call is the first that succeeded and its text is returned.
C4_RetryBound ==
    /\ perform_calls <= retry_attempts + 1
    /\ rc_pc = "raised" =>
          /\ perform_calls = retry_attempts + 1
          /\ failed_calls = perform_calls
          /\ PerformRewrite(provider_name, last_reply) = Raised(exception)
    /\ rc_pc = "returned" =>
          /\ failed_calls = perform_calls - 1
          /\ PerformRewrite(provider_name, last_reply) = Returned(response)

\* C4 witness: with retries configured, every attempt failed and
\* rewrite_chapter raised.
C4_Witness == rc_pc = "raised" /\ retry_attempts >= 1 /\ perform_calls >= 2

\* C5: a rewrite is requested only for a chapter that is persisted as
\* pending, and that was pending when the run started; never for a
\* completed one.
C5_OnlyPendingRewritten ==
    [][\A i \in ChapterIndices :
          (i \in rewrite_requested' /\ i \notin rewrite_requested)
          => /\ chapters[i].status = "pending"
             /\ run_start[i].status = "pending"]_vars

\* C5 witness: a second run over a store in which chapter 1 is completed,
\* started at chapter 1, requests the rewrite of a later chapter.
C5_Witness ==
    /\ runs >= 2
    /\ start_chapter = 1
    /\ run_start[1].status = "completed"
    /\ \E i \in rewrite_requested : i > 1

\* C6 (as stated): the rolling context in chapter k's prompt is chapter
\* k-1's persisted summary verbatim when there is one, and the "first
\* chapter" sentinel when k = 1.
C6_RollingContextVerbatim ==
    pc = "rewriting" =>
        /\ CurrentIndex = 1 => prompt.rolling_context = FirstChapterSentinel
        /\ (CurrentIndex > 1 /\ Truthy(chapters[CurrentIndex - 1].summary))
            => prompt.rolling_context = chapters[CurrentIndex - 1].summary

\* C6 (amended): the rolling context in chapter k's prompt is the label
\* "Context from Previous Chapter: " followed by chapter k-1's persisted
\* summary verbatim when there is one, and the "first chapter" sentinel
\* when k = 1.
C6_RollingContextLabelled ==
    pc = "rewriting" =>
        /\ CurrentIndex = 1 => prompt.rolling_context = FirstChapterSentinel
        /\ (CurrentIndex > 1 /\ Truthy(chapters[CurrentIndex - 1].summary))
            => prompt.rolling_context =
                  ContextPrefix \o chapters[CurrentIndex - 1].summary

\* C6 witness: the prompt of a chapter k > 1 whose predecessor has a
\* summary has been built.
C6_Witness ==
    /\ pc = "rewriting"
    /\ CurrentIndex > 1
    /\ Truthy(chapters[CurrentIndex - 1].summary)

\* the run was started at a chapter s > 1 whose predecessor exists and had
\* an empty summary then
PreviousSummaryMissing ==
    /\ start_chapter > 1
    /\ (start_chapter - 1) \in ChapterIndices
    /\ run_start[start_chapter - 1].summary = <<>>

\* C7: in a run started at chapter s, when chapter s-1 exists and had an
\* empty summary at the start, exactly one summary of chapter s-1 is
\* requested and no rewrite is requested while that request is under way;
\* otherwise summaries are requested only for chapters rewritten in the run.
C7_BackfillOnce ==
    runs >= 1 =>
        IF PreviousSummaryMissing
        THEN /\ summarize_calls[start_chapter - 1] = 1
             /\ pc = "backfill" => rewrite_requested = {}
        ELSE /\ pc # "backfill"
             /\ \A i \in ChapterIndices :
                   summarize_calls[i] > 0 => i \in rewrite_requested

\* C7 witness: a run started at s > 1 backfilled the summary of chapter
\* s-1, then requested a rewrite, and is over.
C7_Witness ==
    /\ pc = "done"
    /\ PreviousSummaryMissing
    /\ summarize_calls[start_chapter - 1] = 1
    /\ rewrite_requested # {}

\* C8: a chapter whose rewrite raised is persisted as failed, and when the
\* run is over a rewrite has been requested for every selected chapter
\* after it.
C8_FailureIsolated ==
    /\ \A j \in exhausted : chapters[j].status = "failed"
    /\ pc = "done" =>
          \A j \in exhausted : \A k \in Selected :
              k > j => k \in rewrite_requested

\* C8 witness: the run is over, a chapter failed in it and a later
\* chapter was attempted.
C8_Witness ==
    /\ pc = "done"
    /\ \E j \in exhausted : \E k \in rewrite_requested : k > j

\* C9 (as stated): a chapter persisted as failed has a non-empty error
\* message, whatever the exception.
C9_FailedHasError ==
    \A i \in ChapterIndices :
        chapters[i].status = "failed" => Truthy(chapters[i].error)

\* C10 (as stated): a chapter persisted as completed has its rewritten
\* text file written, whatever the provider returned.
C10_CompletedHasFile ==
    \A i \in ChapterIndices :
        chapters[i].status = "completed" => rewritten_files[i] # None

\* C11 (as stated): whenever the process is killed, mid-save included,
\* every chapter that was persisted as completed is still recorded as
\* completed in a state file the next run can load.
C11_CompletedSurvivesKill ==
    [][\A i \in ChapterIndices :
          (state_file = "valid" /\ chapters[i].status = "completed")
          => (state_file' = "valid" /\ chapters'[i].status = "completed")]_vars

\* C12: over any sequence of runs the persisted status of a chapter changes
\* only from pending to completed or from pending to failed, and no rewrite
\* is requested for a chapter that is persisted as completed or failed.
C12_OnlyPendingLeaves ==
    [][\A i \in ChapterIndices :
          /\ chapters'[i].status # chapters[i].status
             => /\ chapters[i].status = "pending"
                /\ chapters'[i].status \in {"completed", "failed"}
          /\ (i \in rewrite_requested' /\ i \notin rewrite_requested)
             => chapters[i].status \notin {"completed", "failed"}]_vars

\* C12 witness: a later run whose range includes a chapter that failed in
\* an earlier run has rewritten another chapter and is over; the failed
\* chapter is still failed.
C12_Witness ==
    /\ runs >= 2
    /\ pc = "done"
    /\ rewrite_requested # {}
    /\ \E i \in ChapterIndices :
          /\ run_start[i].status = "failed"
          /\ start_chapter <= i
          /\ chapters[i].status = "failed"

\* the pending chapters of `state` with index in [start, end_chapter],
\* end_chapter = 0 meaning no upper bound
Eligible(state, start, end_chapter) ==
    {i \in ChapterIndices :
        /\ state[i].status = "pending"
        /\ start <= i
        /\ (end_chapter = 0 \/ i <= end_chapter)}

\* C13: get_pending_chapters returns, in strictly ascending order, exactly
\* the pending chapters with index in [start, end] (end = 0: no upper
\* bound) when max = 0, and the max lowest-indexed of them when max > 0;
\* the call leaves the persisted state as it was.
C13_SelectionExact ==
    /\ [](selection # NoSelection =>
            LET e == Eligible(chapters, selection.start_chapter,
                              selection.end_chapter)
                r == selection.pending
                R == {r[p] : p \in 1..Len(r)}
                m == selection.max_chapters_to_run
            IN  /\ \A p, q \in 1..Len(r) : p < q => r[p] < r[q]
                /\ R \subseteq e
                /\ m = 0 => R = e
                /\ m > 0 => /\ Len(r) = Min(m, Cardinality(e))
                            /\ \A i \in R, j \in e \ R : i < j)
    /\ [][selection' # selection => UNCHANGED storeVars]_vars

\* C13 witness: with more pending chapters in the range than the cap,
\* the call returned only the first of them.
C13_Witness ==
    /\ selection.max_chapters_to_run = 1
    /\ Len(selection.pending) = 1
    /\ Cardinality(Eligible(chapters, selection.start_chapter,
                            selection.end_chapter)) > 1

\* C14 (as stated): with every provider a failure of the token counting
\* is replaced by the estimate len(text) // 4 and never leaves
\* rewrite_chapter as an exception.
C14_CountFailureNotPropagated == rc_pc # "count_raised"

\* C15 (as stated): with every provider, a service result that is empty or
\* blocked makes _perform_rewrite raise, and rewrite_chapter never returns
\* an empty text.
C15_EmptyResultFails ==
    rc_pc = "returned" => (last_reply.kind # "empty" /\ response # <<>>)

\* the answer parses, after cleaning, as a JSON object of categories
ParsesAsMapping(text) ==
    /\ JsonLoads(CleanJson(text)).ok
    /\ JsonLoads(CleanJson(text)).value.kind = "object"

\* C16 (as stated): when the glossary request failed, or its answer is
\* empty or does not parse as a mapping of categories to terms,
\* build_initial_glossary leaves a glossary file that holds {}.
C16_FailureLeavesEmptyGlossary ==
    (pc = "glossary_done" /\ (rc_pc # "returned" \/ ~ParsesAsMapping(response)))
    => glossary = EmptyMapping

\* C17 (as stated): with every tpm and rpm limit the limiter can be
\* constructed with and every tokens_to_consume >= 0, no wait call ends in
\* an exception.
C17_WaitNeverRaises == \A c \in Tasks : wait_pc[c] # "raised"

\* C18: every wait call, one that asks for more than the capacity of the
\* bucket included, is eventually granted, and so are the calls made after
\* it by any task.
C18_EveryCallGranted ==
    \A c \in Tasks : (wait_pc[c] = "lock") ~> (wait_pc[c] = "idle")

\* C18 witness: a request for more than the capacity was granted, and a
\* request granted after it has brought the level back to 0 or more.
C18_Witness ==
    /\ max_granted > tpm_capacity
    /\ grants >= 2
    /\ tokens >= 0
    /\ \A c \in Tasks : wait_pc[c] = "idle"

\* task c is suspended in one of the sleeps of wait
Suspended(c) == wait_pc[c] \in {"rpm_sleep", "tpm_sleep"}

\* C19: with concurrent callers of wait, at most one task at a time is
\* inside the sequence of RPM check and sleep, refill, TPM check and sleep,
\* deduction and recording of the call time: it holds the lock, and while
\* it is suspended in a sleep no step of another task changes tokens,
\* last_refill_time or last_call_time.
C19_OneCallerInside ==
    /\ [](\A c, d \in Tasks : (Suspended(c) /\ Suspended(d)) => c = d)
    /\ [](\A c \in Tasks : Suspended(c) => lock = c)
    /\ [][\A c \in Tasks :
            (/\ Suspended(c)
             /\ <<tokens, last_refill_time, last_call_time>>' #
                    <<tokens, last_refill_time, last_call_time>>)
            => wait_pc'[c] # wait_pc[c]]_vars

\* C19 witness: a task is suspended in a sleep of wait while another task
\* has called wait and is held at the lock.
C19_Witness ==
    \E c, d \in Tasks :
        c # d /\ Suspended(c) /\ wait_pc[d] = "lock" /\ tokens_to_consume[d] > 0

C21_GlossaryTextNeverRaises ==
    /\ glossary_text.kind # "raised"
    /\ glossary_text.kind = "returned" =>
          \/ glossary_text.text = GlossarySentinel
          \/ SubSeq(glossary_text.text, 1, Len(GlossaryHeader)) = GlossaryHeader

\* C22 (as stated): when an access to the state file fails during a run,
\* the run is aborted (no later chapter of that run is processed) and the
\* failure is not recorded as a failure of the chapter.
C22_StateFileFailureAborts ==
    /\ [](io_failed => pc = "aborted")
    /\ [][(io_failed' /\ ~io_failed) => chapters' = chapters]_vars

\* C23: within a run the chapters are processed one at a time and in
\* ascending index order: when the rewrite of a chapter is requested no
\* other request of the run is under way, every chapter requested before
\* has a lower index and is persisted as completed or failed, and no
\* selected chapter with a lower index has been passed over.
C23_OneChapterAtATime ==
    [][\A k \in ChapterIndices :
          (k \in rewrite_requested' /\ k \notin rewrite_requested)
          => /\ pc = "loop"
             /\ rc_pc = "none"
             /\ \A j \in rewrite_requested :
                   j < k /\ chapters[j].status \in {"completed", "failed"}
             /\ \A j \in Selected : j < k => j \in rewrite_requested]_vars

\* C23 witness: the rewrite of a second chapter is under way after the
\* first one was rewritten, summarized and persisted as completed.
C23_Witness ==
    /\ pc = "rewriting"
    /\ rc_pc = "attempt"
    /\ CurrentIndex = 2
    /\ rewrite_requested = {1, 2}
    /\ chapters[1].status = "completed"
    /\ Truthy(chapters[1].summary)

\* C24 (as stated): in every run, when the first chapter processed has
\* index k > 1 and chapter k-1 had an empty summary when the run started,
\* a summary of chapter k-1 has been requested before chapter k's prompt is
\* built, whatever start chapter was passed.
C24_BackfillBeforeFirstChapter ==
    [][\A k \in ChapterIndices :
          (/\ rewrite_requested = {}
           /\ rewrite_requested' = {k}
           /\ k > 1
           /\ ~Truthy(run_start[k - 1].summary))
          => summarize_calls[k - 1] >= 1]_vars

\* the message of the exception that _perform_rewrite raises for a reply
EmptyOrBlocked(provider) ==
    IF provider = "gemini"
    THEN <<"Gemini response was empty or blocked. Reason: ">>
    ELSE <<"AI Studio response was empty or blocked. Reason: ">>

\* C25: when rewrite_chapter raises after all its attempts, the exception
\* is the one the last attempt ended in, and no step of the call, from its
\* entry to the raise, changes the persisted chapter state or the
\* rewritten text files.
C25_FailedCallLeavesProject ==
    /\ [](rc_pc = "raised" =>
            /\ perform_calls = retry_attempts + 1
            /\ last_reply.kind \in {"error", "empty"}
            /\ last_reply.kind = "error" => exception = last_reply.text
            /\ last_reply.kind = "empty" =>
                  exception = EmptyOrBlocked(provider_name))
    /\ [][(rc_pc \in {"count", "wait", "attempt", "backoff"})
            => (UNCHANGED storeVars)]_vars

\* C25 witness: the rewrite of a chapter has raised after a retry, with
\* the message of the last attempt, and the chapter is still pending.
C25_Witness ==
    /\ pc = "rewriting"
    /\ rc_pc = "raised"
    /\ perform_calls >= 2
    /\ last_reply.kind = "error"
    /\ exception = <<"E">>
    /\ chapters[CurrentIndex].status = "pending"
    /\ rewritten_files[CurrentIndex] = None

\* C26 (as stated): update_chapter_state(index, completed, ...) clears the
\* error of the chapter: a chapter persisted as completed has an empty
\* error, also when its record carried an error message before.
C26_CompletedClearsError ==
    \A i \in ChapterIndices :
        chapters[i].status = "completed" => ~Truthy(chapters[i].error)

\* the only item whose file name matches the id of chapter j is its own
OwnItemOnly(names, j) ==
    {k \in ChapterIndices : names[k].stem = <<names[j].stem[1]>>} = {j}

\* C27 (as stated): packaging injects rewritten text only for chapters
\* persisted as completed: the item of a pending or failed chapter is left
\* as it is in the source, and such a chapter does not keep the text of a
\* completed chapter from being injected into that chapter's item.
C27_PackagingSkipsUnfinished ==
    packaged # NotPackaged =>
        \A j \in ChapterIndices :
            /\ chapters[j].status # "completed"
               => packaged.files[j] = SourceItem(j)
            /\ packaged.files[j].from # 0
               => chapters[packaged.files[j].from].status = "completed"
            /\ (/\ chapters[j].status = "completed"
                /\ rewritten_files[j] # None
                /\ OwnItemOnly(packaged.names, j))
               => packaged.files[j].from = j

\* C28: in rewrite_chapter, when attempt number a (counted from 0) fails
\* and a < retry_attempts, the next attempt, number a + 1, starts
\* retry_delay * 2^a seconds later, whatever the failure was (an exception
\* of the service, an empty or blocked response); when the last attempt
\* fails the exception leaves at once, without a pause.
C28_ExponentialBackoff ==
    /\ [][failed_calls' = failed_calls + 1
            => IF attempt < retry_attempts
               THEN /\ rc_pc' = "backoff"
                    /\ attempt' = attempt
               ELSE /\ rc_pc' = "raised"
                    /\ now' = now]_vars
    /\ [][(rc_pc = "backoff" /\ rc_pc' # "backoff")
            => /\ rc_pc' = "attempt"
               /\ attempt' = attempt + 1
               /\ now' - now = retry_delay * (2 ^ attempt)]_vars
    /\ [](rc_pc = "backoff" => perform_calls = attempt + 1)
    /\ [](rc_pc = "attempt" => perform_calls = attempt)

\* C28 witness: the third attempt is about to start, after the second one
\* ended with an empty or blocked response.
C28_Witness ==
    /\ rc_pc = "attempt"
    /\ attempt = 2
    /\ last_reply.kind = "empty"
    /\ retry_delay = 2

\* the values count_tokens can have for a prompt: the service's count, or
\* the estimate from the length
PromptTokenCounts == TokenCounts \cup {l \div 4 : l \in PromptLengths}

\* C29: rewrite_chapter calls RateLimiter.wait with twice the value of
\* count_tokens(prompt), before its first _perform_rewrite call, and makes
\* that first call only when the wait has been granted.
C29_WaitBeforeFirstAttempt ==
    /\ [][(rc_pc = "count" /\ rc_pc' = "wait")
            => /\ wait_pc'[1] = "lock"
               /\ \E n \in PromptTokenCounts : tokens_to_consume'[1] = 2 * n]_vars
    /\ [](rc_pc \in {"count", "wait", "count_raised"} => perform_calls = 0)
    /\ [][(perform_calls = 0 /\ perform_calls' = 1)
            => /\ rc_pc = "wait"
               /\ wait_pc[1] = "idle"
               /\ grants >= 1]_vars
    /\ [][(rc_pc = "wait" /\ wait_pc[1] # "idle" /\ wait_pc'[1] = "idle")
            => /\ grants' = grants + 1
               /\ perform_calls' = 0]_vars

\* C29 witness: in a second call of rewrite_chapter the wait had to pause
\* for tokens, was granted, and the first attempt has returned.
C29_Witness ==
    /\ rc_pc = "returned"
    /\ perform_calls = 1
    /\ grants = 2
    /\ max_granted = 40
    /\ tokens < 20

\* the bucket level `elapsed` seconds after it was `level`
Refilled(level, elapsed) ==
    Min(tpm_limit, level + elapsed * (tpm_limit \div 60))

\* C30: the step that grants wait(n) refills the bucket for all the time
\* up to the grant, deducts n from the refilled level and records the call
\* time, all at once: tokens after = min(capacity, tokens before +
\* elapsed * capacity / 60) - n.  A caller that has to pause for tokens
\* refills when it starts the pause, and until its grant no step of
\* another caller changes the level or the refill time.
C30_AtomicDeduction ==
    /\ [][\A c \in Tasks :
            (grants' = grants + 1 /\ wait_pc[c] # "idle" /\ wait_pc'[c] = "idle")
            => /\ tokens' = Refilled(tokens, now' - last_refill_time)
                               - tokens_to_consume[c]
               /\ last_refill_time' = now'
               /\ last_call_time' = now']_vars
    /\ [][\A c \in Tasks :
            (wait_pc[c] # "tpm_sleep" /\ wait_pc'[c] = "tpm_sleep")
            => /\ tokens' = Refilled(tokens, now' - last_refill_time)
               /\ last_refill_time' = now'
               /\ tokens' < tokens_to_consume[c]]_vars
    /\ [][\A c \in Tasks :
            (wait_pc[c] = "tpm_sleep" /\ wait_pc'[c] = "tpm_sleep")
            => UNCHANGED <<tokens, last_refill_time, last_call_time>>]_vars

\* C30 witness: a caller that had to pause for tokens has just been
\* granted while another caller was held at the lock, after an earlier
\* grant.
C30_Witness ==
    /\ grants >= 2
    /\ last_call_time = now
    /\ last_refill_time = now
    /\ tokens = 0
    /\ \E c, d \in Tasks :
          /\ c # d
          /\ wait_pc[c] = "idle" /\ sleep_until[c] = now
          /\ wait_pc[d] = "lock"

(* -------------------- get_rolling_context on its own ------------------- *)

\* the chapter records runs can leave: any status, with or without a summary
\* (a backfill stores a summary whatever the status is)
SummarizedChapters ==
    {[i \in ChapterIndices |->
         [InitialChapters[i] EXCEPT !.status = st[i], !.summary = sm[i]]] :
        st \in [ChapterIndices -> Statuses],
        sm \in [ChapterIndices -> {<<>>, <<"S">>}]}

\* current_chapter_index values: none, the chapters of the book, and two
\* past its end (the second has no predecessor)
ContextIndices == 0..(NumChapters + 2)

\* a call get_rolling_context(current_chapter_index): line 79 returns before
\* the state is loaded; load_state, line 82, raises on a state file that
\* does not parse
GetRollingContextCall(current_chapter_index) ==
    /\ context_call' =
          IF current_chapter_index <= 1
          THEN [chapter_index |-> current_chapter_index, kind |-> "returned",
                text |-> GetRollingContext(chapters, current_chapter_index),
                state_loads |-> 0]
          ELSE IF state_file # "valid"
          THEN [chapter_index |-> current_chapter_index, kind |-> "raised",
                text |-> <<>>, state_loads |-> 1]
          ELSE [chapter_index |-> current_chapter_index, kind |-> "returned",
                text |-> GetRollingContext(chapters, current_chapter_index),
                state_loads |-> 1]
    /\ UNCHANGED <<rlVars, storeVars, runVars, obsVars>>
    /\ UNCHANGED <<selection, glossary, glossary_text, io_failed, packaged,
                   update_call, standalone>>

InitContext ==
    /\ chapters \in SummarizedChapters
    /\ rewritten_files = [i \in ChapterIndices |-> None]
    /\ state_file \in {"valid", "truncated"}
    /\ NoProcessRunning
    /\ provider_name = "gemini"
    /\ retry_attempts = 0
    /\ retry_delay = 0
    /\ tpm_limit = 60
    /\ rpm_limit = 0
    /\ now = 0
    /\ tokens = tpm_limit
    /\ last_refill_time = 0
    /\ last_call_time = 0
    /\ lock = 0
    /\ wait_pc = [c \in Tasks |-> "idle"]
    /\ tokens_to_consume = [c \in Tasks |-> 0]
    /\ sleep_until = [c \in Tasks |-> 0]
    /\ calls = 0
    /\ grants = 0
    /\ max_granted = 0

NextContext == \E i \in ContextIndices : GetRollingContextCall(i)

SpecContext == InitContext /\ [][NextContext]_vars

(* --------------------- the standalone rewriter_pipeline.py ------------- *)

\* a chapter file of OUTPUT_DIR: chapter_NNN.txt with NNN = number, and the
\* text it holds
ChapterFile(number, text) == [number |-> number, text |-> text]

\* the chapter files an earlier run of the script can have left in
\* OUTPUT_DIR
EarlierFiles == {ChapterFile(n, <<"earlier run">>) : n \in ChapterIndices}

\* _save_chapter, lines 323-324: the number in the file name is the one in
\* the chapter's id when the id reads Chapter<N>, and the position in the
\* list of rewritten chapters otherwise
ChapterIndexOf(numbered, chapter, chapter_num) ==
    IF numbered THEN chapter ELSE chapter_num

\* _save_chapter, lines 335-336: the files whose name starts with chapter_
\* and ends with .txt; the files kept here all have such a name
ChapterFilesIn(files) == {f \in files : f.number \in Nat}

\* _save_chapter, lines 331-342: the chapter files of OUTPUT_DIR after the
\* call: a directory that is there is cleared of its chapter_*.txt files,
\* then the chapter's file is written
SaveChapter(exists, files, file) ==
    IF ~exists THEN {file} ELSE (files \ ChapterFilesIn(files)) \cup {file}

\* the states OUTPUT_DIR can be in before the script runs: not there, there
\* without chapter files, or holding files of an earlier run; and the two
\* kinds of book: item ids that read Chapter<N>, and other ids
InitStandalone ==
    /\ \E numbered \in BOOLEAN, exists \in BOOLEAN,
          files \in SUBSET EarlierFiles :
          /\ files # {} => exists
          /\ standalone = [NoStandaloneRun EXCEPT !.numbered = numbered,
                                                  !.exists = exists,
                                                  !.files = files]
    /\ chapters = InitialChapters
    /\ rewritten_files = [i \in ChapterIndices |-> None]
    /\ state_file = "valid"
    /\ MainProgramIdle
    /\ provider_name = "gemini"
    /\ retry_attempts = 0
    /\ retry_delay = 0
    /\ tpm_limit = 60
    /\ rpm_limit = 0
    /\ now = 0
    /\ tokens = tpm_limit
    /\ last_refill_time = 0
    /\ last_call_time = 0
    /\ lock = 0
    /\ wait_pc = [c \in Tasks |-> "idle"]
    /\ tokens_to_consume = [c \in Tasks |-> 0]
    /\ sleep_until = [c \in Tasks |-> 0]
    /\ calls = 0
    /\ grants = 0
    /\ max_granted = 0

StandaloneFrame ==
    /\ UNCHANGED <<rlVars, storeVars, runVars, obsVars>>
    /\ UNCHANGED <<selection, glossary, glossary_text, io_failed, packaged,
                   update_call, context_call>>

\* run, lines 357-371: the output directory is made when it is not there,
\* and one task per chapter is created
StandaloneRun ==
    /\ standalone.pc = "idle"
    /\ standalone' = [standalone EXCEPT !.pc = "rewriting", !.exists = TRUE]
    /\ StandaloneFrame

\* run, lines 373-379: the next task to complete is that of chapter i;
\* _rewrite_chapter_task returned the chapter (ok) or None
RewriteChapterTaskDone(i, ok) ==
    /\ standalone.pc = "rewriting"
    /\ i \notin standalone.done
    /\ standalone' =
          [standalone EXCEPT
              !.done = @ \cup {i},
              !.rewritten_chapters = IF ok THEN Append(@, i) ELSE @]
    /\ StandaloneFrame

\* run, lines 381-387: all tasks are complete; the rewritten chapters are
\* sorted by the number in their title
AllTasksComplete ==
    /\ standalone.pc = "rewriting"
    /\ standalone.done = ChapterIndices
    /\ standalone' =
          [standalone EXCEPT
              !.pc = "saving",
              !.rewritten_chapters = SortByIndex(@)]
    /\ StandaloneFrame

\* run, lines 389-390: _save_chapter(chapter_data, i + 1) for the next
\* chapter of the list
SaveChapterCall ==
    /\ standalone.pc = "saving"
    /\ standalone.saved < Len(standalone.rewritten_chapters)
    /\ LET chapter_num == standalone.saved + 1
           chapter == standalone.rewritten_chapters[chapter_num]
           chapter_index ==
               ChapterIndexOf(standalone.numbered, chapter, chapter_num)
       IN  standalone' =
              [standalone EXCEPT
                  !.saved = chapter_num,
                  !.files = SaveChapter(standalone.exists, @,
                                ChapterFile(chapter_index,
                                            <<"rewritten", chapter>>))]
    /\ StandaloneFrame

\* run, lines 389-397: every chapter of the list was saved; the run is over
StandaloneFinished ==
    /\ standalone.pc = "saving"
    /\ standalone.saved = Len(standalone.rewritten_chapters)
    /\ standalone' = [standalone EXCEPT !.pc = "finished"]
    /\ StandaloneFrame

NextStandalone ==
    \/ StandaloneRun
    \/ \E i \in ChapterIndices, ok \in BOOLEAN : RewriteChapterTaskDone(i, ok)
    \/ AllTasksComplete
    \/ SaveChapterCall
    \/ StandaloneFinished

SpecStandalone == InitStandalone /\ [][NextStandalone]_vars

\* C31 (as stated): update_chapter_state changes only the chapter with the
\* given index; of that chapter the status is set, the summary and the
\* error are set when a value is passed and left as they were when none
\* is passed, and original_text is never changed.
C31_UpdateFrame ==
    [][update_call' # update_call =>
         LET u == update_call'
         IN  /\ \A j \in ChapterIndices :
                   j # u.chapter_index => chapters'[j] = chapters[j]
             /\ \A j \in ChapterIndices :
                   j = u.chapter_index =>
                     /\ chapters'[j].status = u.status
                     /\ chapters'[j].original_text = chapters[j].original_text
                     /\ chapters'[j].summary =
                           IF u.summary # None THEN u.summary
                           ELSE chapters[j].summary
                     /\ chapters'[j].error =
                           IF u.error # None THEN u.error
                           ELSE chapters[j].error]_vars

\* C32: when update_chapter_state is given a rewritten text (a non-empty
\* one), the text file is written before the status is persisted: a
\* chapter that becomes completed in the state file has its file holding
\* that text in the same step, a kill between the two writes leaves the
\* file written and the status as it was, and a written file is never
\* taken away again.
C32_TextBeforeStatus ==
    [][\A i \in ChapterIndices :
          /\ (/\ chapters[i].status # "completed"
              /\ chapters'[i].status = "completed"
              /\ Truthy(rewritten_text))
             => rewritten_files'[i] = rewritten_text
          /\ (rewritten_files'[i] # rewritten_files[i] /\ pc' = "killed")
             => (/\ chapters'[i] = chapters[i]
                 /\ rewritten_files'[i] = rewritten_text)
          /\ rewritten_files[i] # None => rewritten_files'[i] # None]_vars

\* C32 witness: the process was killed between the two writes of
\* update_chapter_state, so a chapter has its text file while the state
\* file, intact, still says pending.
C32_Witness ==
    /\ pc = "killed"
    /\ state_file = "valid"
    /\ \E i \in ChapterIndices :
          /\ rewritten_files[i] # None
          /\ chapters[i].status = "pending"

\* C33: get_rolling_context only reads: a call changes neither the chapter
\* records, the text files nor the state file and sends no request to the
\* provider. For an index of 1 or less it returns the "first chapter"
\* sentinel without loading the state (so also when the state file cannot
\* be parsed); for an index above 1, with a state file that loads, it
\* returns the "no summary" sentinel when the predecessor is missing or has
\* an empty summary.
C33_RollingContextPureRead ==
    /\ [][context_call' # context_call =>
            UNCHANGED <<chapters, rewritten_files, state_file, calls,
                        perform_calls, summarize_calls, grants>>]_vars
    /\ [](context_call.kind # "none" =>
            LET k == context_call.chapter_index
            IN  /\ k <= 1 =>
                      /\ context_call.kind = "returned"
                      /\ context_call.text = FirstChapterSentinel
                      /\ context_call.state_loads = 0
                /\ (/\ k > 1
                    /\ state_file = "valid"
                    /\ \/ (k - 1) \notin ChapterIndices
                       \/ chapters[k - 1].summary = <<>>)
                   => /\ context_call.kind = "returned"
                      /\ context_call.text = NoSummarySentinel)

\* C33 witness: the call for chapter 2 has returned in a project whose
\* chapter 1 has no summary.
C33_Witness ==
    /\ context_call.kind = "returned"
    /\ context_call.chapter_index = 2
    /\ chapters[1].summary = <<>>

\* C34: within a run, the step that persists chapter k as completed stores
\* the non-empty summary its summary request returned and builds no prompt;
\* when chapter k+1 is the next chapter of the run, its prompt is built
\* after that, from the persisted state, so its rolling context carries the
\* summary persisted for chapter k.
C34_SummaryBeforeNextPrompt ==
    /\ [][\A k \in ChapterIndices :
            (/\ chapters[k].status # "completed"
             /\ chapters'[k].status = "completed"
             /\ rc_pc = "returned"
             /\ Strip(response) # <<>>)
            => /\ chapters'[k].summary = Strip(response)
               /\ prompt' = NoPrompt
               /\ pc' = "loop"]_vars
    /\ [][(/\ pc = "loop"
           /\ pc' = "rewriting"
           /\ pos > 1
           /\ pending_chapters[pos - 1] = pending_chapters[pos] - 1
           /\ chapters[pending_chapters[pos] - 1].status = "completed"
           /\ Truthy(chapters[pending_chapters[pos] - 1].summary))
          => /\ chapters' = chapters
             /\ prompt'.rolling_context =
                   ContextPrefix \o chapters[pending_chapters[pos] - 1].summary]_vars

\* C34 witness: chapter k had no summary when the run started, the run has
\* completed it with a summary, and the prompt of chapter k+1, the next
\* chapter of the run, has been built.
C34_Witness ==
    /\ pc = "rewriting"
    /\ pos > 1
    /\ pending_chapters[pos - 1] = CurrentIndex - 1
    /\ run_start[CurrentIndex - 1].summary = <<>>
    /\ chapters[CurrentIndex - 1].status = "completed"
    /\ Truthy(chapters[CurrentIndex - 1].summary)

\* C35: a project starts with every chapter pending, with an empty summary
\* and no error; in every persisted state that loads, the chapter records
\* are those of indices 1..NumChapters, every status is pending, completed
\* or failed, and every chapter's id, title and original_text are the
\* values given at initialization.
C35_RecordsWellFormed ==
    /\ \A i \in ChapterIndices :
          /\ chapters[i].status = "pending"
          /\ chapters[i].summary = <<>>
          /\ chapters[i].error = None
    /\ [](state_file = "valid" =>
            /\ DOMAIN chapters = 1..NumChapters
            /\ \A i \in DOMAIN chapters :
                  /\ chapters[i].status \in {"pending", "completed", "failed"}
                  /\ chapters[i].id = <<"item", ToString(i)>>
                  /\ chapters[i].title = <<"title", ToString(i)>>
                  /\ chapters[i].original_text = OriginalText(i))

\* C35 witness: runs have completed a chapter with a summary and failed
\* another with an error message.
C35_Witness ==
    /\ state_file = "valid"
    /\ \E i, j \in ChapterIndices :
          /\ chapters[i].status = "completed"
          /\ Truthy(chapters[i].summary)
          /\ chapters[j].status = "failed"
          /\ Truthy(chapters[j].error)

\* C36: the grant of a request of at most the capacity leaves the level at
\* 0 or more, whatever the level was before; the level goes below 0 only in
\* the grant of a request of more than the capacity; and a level below 0
\* makes the pause of a later request longer by the time it takes to
\* refill what is missing, nothing else.
C36_DebtOnlyFromOversize ==
    /\ [][\A c \in Tasks :
            (/\ grants' = grants + 1
             /\ wait_pc[c] # "idle" /\ wait_pc'[c] = "idle"
             /\ tokens_to_consume[c] <= tpm_capacity)
            => tokens' >= 0]_vars
    /\ [][(tokens' < 0 /\ tokens >= 0)
            => \E c \in Tasks :
                  /\ wait_pc[c] # "idle" /\ wait_pc'[c] = "idle"
                  /\ tokens_to_consume[c] > tpm_capacity]_vars
    /\ [][\A c \in Tasks :
            (wait_pc[c] # "tpm_sleep" /\ wait_pc'[c] = "tpm_sleep")
            => /\ (sleep_until'[c] - now') * refill_rate_per_second
                      >= tokens_to_consume[c] - tokens'
               /\ (sleep_until'[c] - now' - 1) * refill_rate_per_second
                      < tokens_to_consume[c] - tokens']_vars

\* C36 witness: a request for more than the capacity was granted, which
\* left the level below 0, and the latest grant is that of a request within
\* the capacity that had to pause and has brought the level to 0.
C36_Witness ==
    /\ max_granted > tpm_capacity
    /\ grants >= 2
    /\ tokens = 0
    /\ last_call_time = now
    /\ \E c \in Tasks :
          /\ wait_pc[c] = "idle"
          /\ sleep_until[c] = now
          /\ tokens_to_consume[c] > 0
          /\ tokens_to_consume[c] <= tpm_capacity

\* C37: the step that ends the backfill of a run started at chapter s
\* changes nothing but the summary of chapter s-1: its status and its other
\* fields are as before, no other chapter, no text file and not the state
\* file's condition change, and the run goes on to its loop; the summary
\* becomes the text the request returned, and when the request failed or
\* returned nothing the chapter records are unchanged.
C37_BackfillFrame ==
    [][(pc = "backfill" /\ pc' \notin {"backfill", "killed"})
        => LET p == start_chapter - 1
           IN  /\ pc' = "loop"
               /\ \A j \in ChapterIndices :
                     j # p => chapters'[j] = chapters[j]
               /\ chapters'[p] =
                     [chapters[p] EXCEPT !.summary = chapters'[p].summary]
               /\ rewritten_files' = rewritten_files
               /\ state_file' = state_file
               /\ chapters'[p].summary =
                     IF rc_pc = "returned" /\ Strip(response) # <<>>
                     THEN Strip(response)
                     ELSE chapters[p].summary
               /\ rc_pc # "returned" => chapters' = chapters]_vars

\* C37 witness: a run started at chapter 2 has stored the backfilled
\* summary of chapter 1, which is pending, and is about to enter its loop.
C37_Witness ==
    /\ pc = "loop"
    /\ start_chapter = 2
    /\ rewrite_requested = {}
    /\ summarize_calls[1] = 1
    /\ run_start[1].summary = <<>>
    /\ Truthy(chapters[1].summary)
    /\ chapters[1].status = "pending"

\* C38: a run that is not killed and whose state file accesses succeed
\* comes to its end; at the end every chapter that was selected is
\* completed or failed, and every other chapter has the status it had when
\* the run started.
C38_RunTerminates ==
    /\ (pc \in {"backfill", "loop", "rewriting", "summarizing"}) ~> (pc = "done")
    /\ [](pc = "done" =>
            \A i \in ChapterIndices :
                IF \E p \in 1..Len(pending_chapters) : pending_chapters[p] = i
                THEN chapters[i].status \in {"completed", "failed"}
                ELSE chapters[i].status = run_start[i].status)

\* C38 witness: a run that selected one chapter is over; that chapter
\* failed, and a chapter that was not selected is still pending.
C38_Witness ==
    /\ pc = "done"
    /\ Len(pending_chapters) = 1
    /\ chapters[pending_chapters[1]].status = "failed"
    /\ \E j \in ChapterIndices :
          j # pending_chapters[1] /\ chapters[j].status = "pending"

\* C39: the step that records a chapter whose rewrite call raised makes it
\* failed, requests no summary, writes no text file and leaves the
\* chapter's summary as it was; within a run a summary is requested only
\* for the chapter whose rewrite has just returned, or, when the run
\* starts, for chapter start_chapter - 1; so no summary was requested for a
\* chapter that failed in the run.
C39_NoSummaryAfterFailure ==
    /\ [][(/\ pc = "rewriting"
           /\ rc_pc \in {"raised", "count_raised"}
           /\ pc' # "killed")
          => /\ chapters'[pending_chapters[pos]].status = "failed"
             /\ chapters'[pending_chapters[pos]].summary =
                   chapters[pending_chapters[pos]].summary
             /\ rewritten_files' = rewritten_files
             /\ summarize_calls' = summarize_calls
             /\ rc_pc' = "none"]_vars
    /\ [][\A i \in ChapterIndices :
            summarize_calls'[i] > summarize_calls[i]
            => \/ /\ pc = "rewriting"
                  /\ rc_pc = "returned"
                  /\ i = pending_chapters[pos]
               \/ /\ pc' = "backfill"
                  /\ pc # "backfill"
                  /\ i = start_chapter' - 1]_vars
    /\ [](\A i \in exhausted : summarize_calls[i] = 0)

\* C39 witness: a chapter that carried a summary from an earlier backfill
\* has failed in this run; it has kept the summary and has no text file.
C39_Witness ==
    \E i \in exhausted :
        /\ chapters[i].status = "failed"
        /\ Truthy(chapters[i].summary)
        /\ rewritten_files[i] = None
        /\ pc = "loop"

\* C40 (as stated): when run() of the standalone script has saved its
\* results, OUTPUT_DIR holds a chapter file with the text of every chapter
\* that was rewritten in the run.
C40_EveryRewrittenChapterSaved ==
    standalone.pc = "finished" =>
        \A p \in 1..Len(standalone.rewritten_chapters) :
            \E file \in standalone.files :
                file.text = <<"rewritten", standalone.rewritten_chapters[p]>>

=============================================================================
